---------------------------- MODULE Spec2Model ----------------------------
(***************************************************************************)
(* A model of the media_organization scripts: the action executors of     *)
(* movie_cleanup.py (execute_actions_file) and movie_cleanup_2.py          *)
(* (ActionExecutor), the cleanup planner and the two main() entry points.  *)
(*                                                                         *)
(* Paths and names are strings; TLC's Sequences operators (Len, SubSeq,    *)
(* \o) work on strings, so path arithmetic is computed character by        *)
(* character as pathlib does.  The filesystem is a function from the       *)
(* paths that exist (below the root "/") to what is there.                 *)
(***************************************************************************)
EXTENDS Integers, Sequences, FiniteSets, TLC

VARIABLES
    entry,              \* the script started: "movie_cleanup" | "movie_cleanup_2" | "" (a function is called directly)
    argv,               \* movie_cleanup: sys.argv[1:]
    mode_in,            \* movie_cleanup_2: what the user types at the mode prompt
    answer,             \* what the user typed at the confirmation prompt; None while not asked
    log_exists,         \* whether the actions file named to main exists
    prog,               \* the function running: "file" (execute_actions_file), "exec"
                        \* (ActionExecutor.execute_all), "plan" (the cleanup planner), "" (none yet)
    fs,                 \* the filesystem: path -> [kind, data, size]
    fs_run,             \* the filesystem when the current run started
    locked,             \* paths the OS refuses to remove or rename (held by another process)
    actions,            \* the loaded action log (json.load)
    dry_run,            \* the dry_run flag of the run
    idx,                \* number of actions / items already processed by the running loop
    results,            \* execute_actions_file: the results list
    folders_to_check,   \* parents of sources, for the end-of-run pass
    stats,              \* ActionExecutor.execute_all: stats
    errors,             \* ActionExecutor.execute_all: errors
    all_actions,        \* the planner's action list
    items,              \* rename_for_radarr: sorted(root.iterdir())
    tmdb,               \* rename_for_radarr: what the last lookup_movie_year returned
    listing,            \* handle_duplicates: the order in which root.iterdir() yielded the items
    lookups,            \* rename_for_radarr: item -> what lookup_movie_year returned for it
    pc,                 \* "main" | "confirm" | "loop" | "duplicates" | "rename" | "done"
                        \* | "cancelled" | "crashed" (an exception left the function)
    run,                \* 1: first run of the log; 2: the replay on the resulting filesystem
    files,              \* downloads_import: the .mkv paths read from the input list
    replace_better,     \* downloads_import: the replace policy flag
    tokens,             \* the quality tags of the filename being scored
    quality             \* what extract_quality_info returned for it; None before the call

mainVars == <<entry, argv, mode_in, answer, log_exists>>
planVars == <<all_actions, items, tmdb, listing, lookups>>
importVars == <<files, replace_better, tokens, quality>>

vars == <<entry, argv, mode_in, answer, log_exists, prog, fs, fs_run, locked, actions,
          dry_run, idx, results, folders_to_check, stats, errors, all_actions, items, tmdb,
          listing, lookups, pc, run,
          files, replace_better, tokens, quality>>

----------------------------------------------------------------------------
(* Bounds of the model *)

\* The longest action log
MaxLogLen == 2

\* The largest folder size of the planner's libraries, in MiB
MaxSize == 2

----------------------------------------------------------------------------
(* Strings and paths *)

\* The characters of the model's names, in code-point order (Python compares str by code point).
Alphabet == " ()-./0123456789ABCDEFGHIJKLMNOPQRSTUVWXYZ_abcdefghijklmnopqrstuvwxyz"

RECURSIVE IndexFrom(_, _, _)
IndexFrom(s, c, i) ==
    IF i > Len(s) THEN 0
    ELSE IF SubSeq(s, i, i) = c THEN i ELSE IndexFrom(s, c, i + 1)

CharRank(c) == IndexFrom(Alphabet, c, 1)

\* s < t for Python str
RECURSIVE StrLess(_, _)
StrLess(s, t) ==
    IF Len(t) = 0 THEN FALSE
    ELSE IF Len(s) = 0 THEN TRUE
    ELSE LET a == CharRank(Head(s))
             b == CharRank(Head(t))
         IN  IF a # b THEN a < b ELSE StrLess(Tail(s), Tail(t))

\* sorted(S) for a set of str
RECURSIVE Sorted(_)
Sorted(S) ==
    IF S = {} THEN <<>>
    ELSE LET m == CHOOSE x \in S : \A y \in S \ {x} : StrLess(x, y)
         IN  <<m>> \o Sorted(S \ {m})

Root == "/"

RECURSIVE LastSlash(_, _)
LastSlash(p, i) ==
    IF i = 0 THEN 0
    ELSE IF SubSeq(p, i, i) = "/" THEN i ELSE LastSlash(p, i - 1)

\* str(Path(p).parent)
Parent(p) ==
    LET i == LastSlash(p, Len(p))
    IN  IF i <= 1 THEN Root ELSE SubSeq(p, 1, i - 1)

\* Path(p).name
Name(p) == SubSeq(p, LastSlash(p, Len(p)) + 1, Len(p))

\* str(Path(d) / n)
Join(d, n) == IF d = Root THEN Root \o n ELSE d \o "/" \o n

\* q lies strictly below directory p
IsUnder(q, p) ==
    /\ q # p
    /\ \/ p = Root
       \/ Len(q) > Len(p) + 1 /\ SubSeq(q, 1, Len(p) + 1) = p \o "/"

RECURSIVE Ancestors(_)
Ancestors(p) == IF p = Root THEN {} ELSE {Parent(p)} \cup Ancestors(Parent(p))

----------------------------------------------------------------------------
(* The filesystem primitives the scripts consume (pathlib, os, shutil) *)

\* What is at a path: a directory, or a file with its content and its size (in MiB)
DirEntry == [kind |-> "dir", data |-> "", size |-> 0]
FileEntry(d, n) == [kind |-> "file", data |-> d, size |-> n]

Exists(f, p) == p = Root \/ p \in DOMAIN f
IsDir(f, p) == p = Root \/ (p \in DOMAIN f /\ f[p].kind = "dir")
IsFile(f, p) == p \in DOMAIN f /\ f[p].kind = "file"
Iterdir(f, p) == {q \in DOMAIN f : Parent(q) = p}
Remove(f, S) == [q \in DOMAIN f \ S |-> f[q]]

\* Every path of a filesystem lies in a directory
WellFormed(f) == \A p \in DOMAIN f : IsDir(f, Parent(p))

\* The outcome of a primitive: the filesystem it leaves and the exception it raised ("" for none)
Outcome(f, e) == [fs |-> f, raised |-> e]

\* Path.unlink / os.remove
Unlink(f, p, lck) ==
    IF ~Exists(f, p) THEN Outcome(f, "FileNotFoundError")
    ELSE IF IsDir(f, p) THEN Outcome(f, "IsADirectoryError")
    ELSE IF p \in lck THEN Outcome(f, "PermissionError")
    ELSE Outcome(Remove(f, {p}), "")

\* Path.rmdir
Rmdir(f, p, lck) ==
    IF ~Exists(f, p) THEN Outcome(f, "FileNotFoundError")
    ELSE IF ~IsDir(f, p) THEN Outcome(f, "NotADirectoryError")
    ELSE IF Iterdir(f, p) # {} THEN Outcome(f, "OSError: directory not empty")
    ELSE IF p = Root \/ p \in lck THEN Outcome(f, "PermissionError")
    ELSE Outcome(Remove(f, {p}), "")

\* Path.mkdir(parents=True, exist_ok=True)
Mkdirs(f, p) ==
    IF \E a \in Ancestors(p) \cup {p} : IsFile(f, a) THEN Outcome(f, "FileExistsError")
    ELSE LET new == (Ancestors(p) \cup {p}) \ ({Root} \cup DOMAIN f)
         IN  Outcome([q \in DOMAIN f \cup new |-> IF q \in new THEN DirEntry ELSE f[q]], "")

\* os.rename of a tree: src and all below it appear under dst
RenameTree(f, src, dst) ==
    LET moved == {q \in DOMAIN f : q = src \/ IsUnder(q, src)}
        To(q) == dst \o SubSeq(q, Len(src) + 1, Len(q))
        kept == DOMAIN f \ moved
    IN  [q \in kept \cup {To(m) : m \in moved} |->
            IF q \in kept THEN f[q]
            ELSE f[CHOOSE m \in moved : To(m) = q]]

\* shutil.move(src, dst)
ShutilMove(f, src, dst, lck) ==
    LET real_dst == IF IsDir(f, dst) THEN Join(dst, Name(src)) ELSE dst
    IN  IF IsDir(f, dst) /\ src = dst THEN Outcome(f, "")
        ELSE IF IsDir(f, dst) /\ Exists(f, real_dst)
            THEN Outcome(f, "Error: destination path already exists")
        ELSE IF ~Exists(f, src) THEN Outcome(f, "FileNotFoundError")
        ELSE IF src \in lck THEN Outcome(f, "PermissionError")
        ELSE IF ~IsDir(f, Parent(real_dst)) THEN Outcome(f, "FileNotFoundError")
        ELSE IF src = real_dst THEN Outcome(f, "")
        ELSE IF IsFile(f, src)
            THEN Outcome([q \in (DOMAIN f \ {src}) \cup {real_dst} |->
                             IF q = real_dst THEN f[src] ELSE f[q]], "")
        ELSE IF Exists(f, real_dst) \/ IsUnder(real_dst, src)
            THEN Outcome(f, "Error: cannot move a directory there")
        ELSE Outcome(RenameTree(f, src, real_dst), "")

\* shutil.rmtree
Rmtree(f, p) == Remove(f, {q \in DOMAIN f : q = p \/ IsUnder(q, p)})

----------------------------------------------------------------------------
(* Action records (the persisted log is a JSON array of objects) *)

None == "<None>"

\* action.get(k)
Get(a, k) == IF k \in DOMAIN a THEN a[k] ELSE None

\* Python truthiness of an optional str
Truthy(v) == v # None /\ v # ""

\* x or y
Or(x, y) == IF Truthy(x) THEN x ELSE y

----------------------------------------------------------------------------
(* movie_cleanup.py: execute_actions_file *)

\* The loop's local state between two actions
FileState(f, r, c) == [fs |-> f, results |-> r, folders |-> c]

\* for child in sorted(src_path.iterdir()): if child.is_file(): child.unlink()
RECURSIVE UnlinkChildFiles(_, _, _)
UnlinkChildFiles(f, kids, lck) ==
    IF kids = <<>> THEN Outcome(f, "")
    ELSE IF IsFile(f, Head(kids))
        THEN LET o == Unlink(f, Head(kids), lck)
             IN  IF o.raised # "" THEN o ELSE UnlinkChildFiles(o.fs, Tail(kids), lck)
        ELSE UnlinkChildFiles(f, Tail(kids), lck)

\* The mutant of DeletePath that removes a directory with all below it
DeletePath_Recursive(f, src, lck) ==
    IF IsFile(f, src) THEN Unlink(f, src, lck)
    ELSE IF IsDir(f, src) /\ src # Root THEN Outcome(Rmtree(f, src), "")
    ELSE Outcome(f, "")

\* The live branch of a delete: a file is removed; of a directory, the files directly
\* inside are removed and then the directory if that emptied it (a failed rmdir is logged)
DeletePath(f, src, lck) ==
    IF Exists(f, src)
    THEN IF IsFile(f, src) THEN Unlink(f, src, lck)
         ELSE IF IsDir(f, src)
             THEN LET o == UnlinkChildFiles(f, Sorted(Iterdir(f, src)), lck)
                  IN  IF o.raised # "" THEN o ELSE Outcome(Rmdir(o.fs, src, lck).fs, "")
             ELSE Outcome(f, "")
    ELSE Outcome(f, "")

\* The mutant of FileDelete that swallows an exception of the delete without recording it
FileDelete_Swallow(st, a, dry, lck) ==
    LET src == Or(Get(a, "source"), Get(a, "path"))
    IN  IF ~Truthy(src)
        THEN FileState(st.fs,
                       Append(st.results, [action |-> "delete", status |-> "error",
                                           error |-> "delete action requires source"]),
                       st.folders)
        ELSE LET o == IF dry THEN Outcome(st.fs, "") ELSE DeletePath(st.fs, src, lck)
             IN  IF o.raised # ""
                 THEN FileState(o.fs, st.results, st.folders)
                 ELSE FileState(o.fs,
                                Append(st.results, [action |-> "delete", source |-> src,
                                                    status |-> "ok"]),
                                st.folders \cup {Parent(src)})

\* elif a_type == 'delete'
FileDelete(st, a, dry, lck) ==
    LET src == Or(Get(a, "source"), Get(a, "path"))
    IN  IF ~Truthy(src)
        THEN FileState(st.fs,
                       Append(st.results, [action |-> "delete", status |-> "error",
                                           error |-> "delete action requires source"]),
                       st.folders)
        ELSE LET o == IF dry THEN Outcome(st.fs, "") ELSE DeletePath(st.fs, src, lck)
             IN  IF o.raised # ""
                 THEN FileState(o.fs,
                                Append(st.results, [action |-> "delete", status |-> "error",
                                                    error |-> o.raised]),
                                st.folders)
                 ELSE FileState(o.fs,
                                Append(st.results, [action |-> "delete", source |-> src,
                                                    status |-> "ok"]),
                                st.folders \cup {Parent(src)})

\* One iteration of the loop over the actions
FileAction(st, a, dry, lck) ==
    LET a_type == Get(a, "action")
    IN  IF a_type = "move" THEN st                       \* pass
        ELSE IF a_type = "delete" THEN FileDelete(st, a, dry, lck)
        ELSE IF a_type = "rename" THEN st                \* pass
        ELSE IF a_type \in {"keep", "skip"}
            THEN FileState(st.fs, Append(st.results, [action |-> a_type, status |-> "skipped"]),
                           st.folders)
        ELSE FileState(st.fs, Append(st.results, [action |-> a_type, status |-> "unknown"]),
                       st.folders)

\* The mutant of FileCleanup that removes the folders in a dry run too
RECURSIVE FileCleanup_NoDryRun(_, _, _, _)
FileCleanup_NoDryRun(f, folders, dry, lck) ==
    IF folders = <<>> THEN f
    ELSE LET p == Head(folders)
             g == IF Exists(f, p) /\ IsDir(f, p) /\ Iterdir(f, p) = {}
                  THEN Rmdir(f, p, lck).fs ELSE f
         IN  FileCleanup_NoDryRun(g, Tail(folders), dry, lck)

\* for folder in sorted(folders_to_check): remove it if it is an empty directory
RECURSIVE FileCleanup(_, _, _, _)
FileCleanup(f, folders, dry, lck) ==
    IF folders = <<>> THEN f
    ELSE LET p == Head(folders)
             g == IF Exists(f, p) /\ IsDir(f, p) /\ Iterdir(f, p) = {} /\ ~dry
                  THEN Rmdir(f, p, lck).fs ELSE f
         IN  FileCleanup(g, Tail(folders), dry, lck)

----------------------------------------------------------------------------
(* movie_cleanup_2.py: ActionExecutor *)

\* The executor's state between two actions; crashed: an exception left execute_all
ExecState(f, c, s, e, x) == [fs |-> f, folders |-> c, stats |-> s, errors |-> e, crashed |-> x]

\* The result of execute_move / execute_delete: (success, error) with the state they leave
Res(f, c, e) == [fs |-> f, folders |-> c, error |-> e]

\* ActionExecutor.execute_move
execute_move(f, folders, source, destination, lck) ==
    LET mk == IF ~Exists(f, destination) THEN Mkdirs(f, destination) ELSE Outcome(f, "")
        full_dest == Join(destination, Name(source))
    IN  IF mk.raised # "" THEN Res(mk.fs, folders, mk.raised)
        ELSE LET mv == ShutilMove(mk.fs, source, full_dest, lck)
             IN  IF mv.raised # "" THEN Res(mv.fs, folders, mv.raised)
                 ELSE Res(mv.fs, folders \cup {Parent(source)}, "")

\* ActionExecutor.execute_delete
execute_delete(f, folders, source, lck) ==
    LET o == Unlink(f, source, lck)
    IN  IF o.raised # "" THEN Res(o.fs, folders, o.raised)
        ELSE Res(o.fs, folders \cup {Parent(source)}, "")

Bump(s, k) == [s EXCEPT ![k] = @ + 1]

\* One iteration of execute_all's loop
ExecAction(st, a, lck) ==
    IF "action" \notin DOMAIN a \/ "source" \notin DOMAIN a
    THEN [st EXCEPT !.crashed = TRUE]                               \* KeyError
    ELSE LET action_type == a["action"]
             source == a["source"]
         IN  IF action_type = "move"
             THEN IF "destination" \notin DOMAIN a
                  THEN [st EXCEPT !.crashed = TRUE]                 \* KeyError
                  ELSE LET r == execute_move(st.fs, st.folders, source, a["destination"], lck)
                       IN  IF r.error = ""
                           THEN ExecState(r.fs, r.folders, Bump(st.stats, "moved"), st.errors, FALSE)
                           ELSE ExecState(r.fs, r.folders, Bump(st.stats, "errors"),
                                          Append(st.errors, <<"move", source, r.error>>), FALSE)
             ELSE IF action_type = "delete"
             THEN LET r == execute_delete(st.fs, st.folders, source, lck)
                  IN  IF r.error = ""
                      THEN ExecState(r.fs, r.folders, Bump(st.stats, "deleted"), st.errors, FALSE)
                      ELSE ExecState(r.fs, r.folders, Bump(st.stats, "errors"),
                                     Append(st.errors, <<"delete", source, r.error>>), FALSE)
             ELSE IF action_type = "keep"
             THEN ExecState(st.fs, st.folders, Bump(st.stats, "kept"), st.errors, FALSE)
             ELSE st

\* ActionExecutor.cleanup_empty_folders
RECURSIVE cleanup_empty_folders(_, _, _)
cleanup_empty_folders(f, folders, lck) ==
    IF folders = <<>> THEN f
    ELSE LET p == Head(folders)
             g == IF Exists(f, p) /\ IsDir(f, p) /\ Iterdir(f, p) = {}
                  THEN Rmdir(f, p, lck).fs ELSE f
         IN  cleanup_empty_folders(g, Tail(folders), lck)

----------------------------------------------------------------------------
(* movie_cleanup.py: the name functions of the cleanup planner *)

Digits == "0123456789"
LowerCase == "abcdefghijklmnopqrstuvwxyz"
UpperCase == "ABCDEFGHIJKLMNOPQRSTUVWXYZ"

At(s, i) == SubSeq(s, i, i)
IsDigit(c) == IndexFrom(Digits, c, 1) > 0
IsSpace(c) == c = " "

\* str.lower / str.upper of one character
LowerChar(c) == LET i == IndexFrom(UpperCase, c, 1) IN IF i > 0 THEN At(LowerCase, i) ELSE c
UpperChar(c) == LET i == IndexFrom(LowerCase, c, 1) IN IF i > 0 THEN At(UpperCase, i) ELSE c

RECURSIVE Lower(_)
Lower(s) == IF s = "" THEN "" ELSE LowerChar(Head(s)) \o Lower(Tail(s))

RECURSIVE Upper(_)
Upper(s) == IF s = "" THEN "" ELSE UpperChar(Head(s)) \o Upper(Tail(s))

\* str.capitalize
Capitalize(s) == IF s = "" THEN "" ELSE UpperChar(Head(s)) \o Lower(Tail(s))

\* s.replace(a, b) for single characters
RECURSIVE ReplaceChar(_, _, _)
ReplaceChar(s, a, b) ==
    IF s = "" THEN ""
    ELSE (IF Head(s) = a THEN b ELSE Head(s)) \o ReplaceChar(Tail(s), a, b)

\* The number of whitespace characters s starts with
RECURSIVE LeadingSpaces(_)
LeadingSpaces(s) ==
    IF s # "" /\ IsSpace(Head(s)) THEN 1 + LeadingSpaces(Tail(s)) ELSE 0

\* s has \(\d{4}\) at position i
YearAt(s, i) ==
    /\ Len(s) >= i + 5
    /\ At(s, i) = "(" /\ At(s, i + 5) = ")"
    /\ \A k \in 1..4 : IsDigit(At(s, i + k))

\* re.sub(r'\s*\(\d{4}\)\s*', '', s)
RECURSIVE StripYears(_)
StripYears(s) ==
    IF s = "" THEN ""
    ELSE LET k == LeadingSpaces(s)
         IN  IF YearAt(s, k + 1)
             THEN LET rest == SubSeq(s, k + 7, Len(s))
                  IN  StripYears(SubSeq(rest, LeadingSpaces(rest) + 1, Len(rest)))
             ELSE Head(s) \o StripYears(Tail(s))

\* The first word of s (s starts with a non-space character)
RECURSIVE WordLen(_)
WordLen(s) == IF s = "" \/ IsSpace(Head(s)) THEN 0 ELSE 1 + WordLen(Tail(s))

\* s.split()
RECURSIVE Split(_)
Split(s) ==
    LET t == SubSeq(s, LeadingSpaces(s) + 1, Len(s))
    IN  IF t = "" THEN <<>>
        ELSE <<SubSeq(t, 1, WordLen(t))>> \o Split(SubSeq(t, WordLen(t) + 1, Len(t)))

\* sep.join(words)
RECURSIVE JoinWords(_, _)
JoinWords(words, sep) ==
    IF words = <<>> THEN ""
    ELSE IF Len(words) = 1 THEN words[1]
    ELSE words[1] \o sep \o JoinWords(Tail(words), sep)

\* word.split("-")
RECURSIVE SplitHyphen(_)
SplitHyphen(w) ==
    LET i == IndexFrom(w, "-", 1)
    IN  IF i = 0 THEN <<w>>
        ELSE <<SubSeq(w, 1, i - 1)>> \o SplitHyphen(SubSeq(w, i + 1, Len(w)))

\* The strings left after removing from the front of r one of the alternatives
StripAny(R, alternatives) ==
    {SubSeq(r, Len(a) + 1, Len(r)) :
        <<r, a>> \in {x \in R \X alternatives : Len(x[1]) >= Len(x[2])
                                                 /\ SubSeq(x[1], 1, Len(x[2])) = x[2]}}

\* roman_numeral.match(word): thousands, hundreds, tens and units, not empty, any case
RomanNumeral(word) ==
    LET w == Upper(word)
        r1 == StripAny({w}, {"", "M", "MM", "MMM", "MMMM"})
        r2 == StripAny(r1, {"CM", "CD", "", "C", "CC", "CCC", "D", "DC", "DCC", "DCCC"})
        r3 == StripAny(r2, {"XC", "XL", "", "X", "XX", "XXX", "L", "LX", "LXX", "LXXX"})
        r4 == StripAny(r3, {"IX", "IV", "", "I", "II", "III", "V", "VI", "VII", "VIII"})
    IN  w # "" /\ "" \in r4

small_words ==
    {"a", "an", "the", "and", "but", "or", "nor", "as", "at", "by", "for", "in", "of",
     "on", "per", "to", "vs", "via", "from", "into", "onto"}

\* One word of radarr_title_case, the i-th of n
TitleWord(word, i, n) ==
    IF RomanNumeral(word) THEN Upper(word)
    ELSE IF i = 1 \/ i = n THEN Capitalize(word)
    ELSE IF Lower(word) \in small_words THEN Lower(word)
    ELSE IF IndexFrom(word, "-", 1) > 0
        THEN LET parts == SplitHyphen(word)
             IN  JoinWords([k \in 1..Len(parts) |->
                               IF RomanNumeral(parts[k]) THEN Upper(parts[k])
                               ELSE Capitalize(parts[k])], "-")
    ELSE Capitalize(word)

radarr_title_case(title) ==
    LET words == Split(title)
    IN  JoinWords([i \in 1..Len(words) |-> TitleWord(words[i], i, Len(words))], " ")

clean_movie_name(name) ==
    radarr_title_case(JoinWords(Split(ReplaceChar(StripYears(name), "_", " ")), " "))

\* re.search(r'\((\d{4})\)', folder_name): the first year in parentheses, or None
RECURSIVE YearFrom(_, _)
YearFrom(s, i) ==
    IF i + 5 > Len(s) THEN None
    ELSE IF YearAt(s, i) THEN SubSeq(s, i + 1, i + 4) ELSE YearFrom(s, i + 1)

extract_year(folder_name) == YearFrom(folder_name, 1)

\* re.match(r'^.+\s\(\d{4}\)$', original_name)
IsCanonical(name) ==
    /\ Len(name) >= 8
    /\ IsSpace(At(name, Len(name) - 6))
    /\ YearAt(name, Len(name) - 5)

----------------------------------------------------------------------------
(* movie_cleanup.py: the cleanup planner *)

RECURSIVE SumSizes(_, _)
SumSizes(f, S) ==
    IF S = {} THEN 0
    ELSE LET p == CHOOSE x \in S : TRUE IN f[p].size + SumSizes(f, S \ {p})

\* sum(f.stat().st_size for f in item.rglob('*') if f.is_file()), in MiB
FolderSize(f, item) == SumSizes(f, {q \in DOMAIN f : IsUnder(q, item) /\ IsFile(f, q)})

\* The record handle_duplicates keeps of a top-level folder
FolderInfo(f, item) ==
    [path |-> item, name |-> Name(item), year |-> extract_year(Name(item)),
     size_mb |-> FolderSize(f, item), clean_name |-> clean_movie_name(Name(item))]

\* The folders among the scanned items, in scan order
RECURSIVE ScanFolders(_, _)
ScanFolders(f, order) ==
    IF order = <<>> THEN <<>>
    ELSE (IF IsDir(f, Head(order)) THEN <<FolderInfo(f, Head(order))>> ELSE <<>>)
         \o ScanFolders(f, Tail(order))

\* The keys of movie_groups in insertion order
RECURSIVE GroupKeys(_, _)
GroupKeys(infos, seen) ==
    IF infos = <<>> THEN <<>>
    ELSE IF Head(infos).clean_name \in seen THEN GroupKeys(Tail(infos), seen)
    ELSE <<Head(infos).clean_name>> \o GroupKeys(Tail(infos), seen \cup {Head(infos).clean_name})

\* movie_groups[k]: the folders of clean name k, in scan order
RECURSIVE Group(_, _)
Group(infos, k) ==
    IF infos = <<>> THEN <<>>
    ELSE (IF Head(infos).clean_name = k THEN <<Head(infos)>> ELSE <<>>) \o Group(Tail(infos), k)

\* The mutant of KeyGreater that ranks by size before the year
KeyGreater_SizeFirst(x, y) ==
    LET hx == x.year # None
        hy == y.year # None
    IN  \/ x.size_mb > y.size_mb
        \/ x.size_mb = y.size_mb /\ hx /\ ~hy

\* The sort key (has year, size) of x is greater than that of y
KeyGreater(x, y) ==
    LET hx == x.year # None
        hy == y.year # None
    IN  \/ hx /\ ~hy
        \/ hx = hy /\ x.size_mb > y.size_mb

\* sorted(folders, key=..., reverse=True): descending and stable
RECURSIVE InsertDesc(_, _)
InsertDesc(sorted, x) ==
    IF sorted = <<>> THEN <<x>>
    ELSE IF KeyGreater(x, Head(sorted)) THEN <<x>> \o sorted
    ELSE <<Head(sorted)>> \o InsertDesc(Tail(sorted), x)

RECURSIVE SortedDesc(_)
SortedDesc(folders) ==
    IF folders = <<>> THEN <<>>
    ELSE InsertDesc(SortedDesc(SubSeq(folders, 1, Len(folders) - 1)), folders[Len(folders)])

\* The delete actions of one duplicate group
GroupDeletes(folders) ==
    LET folders_sorted == SortedDesc(folders)
        keep == folders_sorted[1]
        remove == Tail(folders_sorted)
    IN  [i \in 1..Len(remove) |->
            [action |-> "delete", path |-> remove[i].path,
             reason |-> "Duplicate of " \o keep.name]]

RECURSIVE DuplicateActions(_, _)
DuplicateActions(infos, keys) ==
    IF keys = <<>> THEN <<>>
    ELSE (IF Len(Group(infos, Head(keys))) > 1 THEN GroupDeletes(Group(infos, Head(keys))) ELSE <<>>)
         \o DuplicateActions(infos, Tail(keys))

RECURSIVE RmtreeAll(_, _)
RmtreeAll(f, acts) ==
    IF acts = <<>> THEN f ELSE RmtreeAll(Rmtree(f, Head(acts).path), Tail(acts))

\* The mutant of handle_duplicates that removes the duplicates in a dry run too
handle_duplicates_NoDryRun(f, order, dry) ==
    LET infos == ScanFolders(f, order)
        acts == DuplicateActions(infos, GroupKeys(infos, {}))
    IN  [fs |-> RmtreeAll(f, acts), actions |-> acts]

\* handle_duplicates(dry_run), root.iterdir() yielding the items in `order`
handle_duplicates(f, order, dry) ==
    LET infos == ScanFolders(f, order)
        acts == DuplicateActions(infos, GroupKeys(infos, {}))
    IN  [fs |-> IF dry THEN f ELSE RmtreeAll(f, acts), actions |-> acts]

\* Path.rename(new_path) of a directory
RenamePath(f, old, new) ==
    IF ~Exists(f, old) THEN Outcome(f, "FileNotFoundError")
    ELSE IF Exists(f, new) THEN Outcome(f, "FileExistsError")
    ELSE Outcome(RenameTree(f, old, new), "")

\* rename_for_radarr calls lookup_movie_year for this item
LooksUp(f, item) ==
    IsDir(f, item) /\ ~IsCanonical(Name(item)) /\ ~Truthy(extract_year(Name(item)))

\* The mutant of RenameItem that renames to year 0000 when no year is found
RenameItem_YearUnknown(f, item, looked_up, dry) ==
    LET original_name == Name(item)
        base_clean == clean_movie_name(original_name)
        found == extract_year(original_name)
        year == IF Truthy(found) THEN found ELSE IF Truthy(looked_up) THEN looked_up ELSE "0000"
        new_name == base_clean \o " (" \o year \o ")"
        new_path == Join(Parent(item), new_name)
    IN  IF ~IsDir(f, item) \/ IsCanonical(original_name) THEN [fs |-> f, actions |-> <<>>]
        ELSE IF Exists(f, new_path)
            THEN [fs |-> f,
                  actions |-> <<[action |-> "skip", path |-> item,
                                 reason |-> "Target " \o new_name \o " already exists"]>>]
        ELSE [fs |-> IF dry THEN f ELSE RenamePath(f, item, new_path).fs,
              actions |-> <<[action |-> "rename", old_path |-> item, new_path |-> new_path,
                             old_name |-> original_name, new_name |-> new_name]>>]

\* The mutant of RenameItem that does not look for a folder at the new path
RenameItem_NoCollisionCheck(f, item, looked_up, dry) ==
    LET original_name == Name(item)
        base_clean == clean_movie_name(original_name)
        found == extract_year(original_name)
        year == IF Truthy(found) THEN found ELSE looked_up
        new_name == base_clean \o " (" \o year \o ")"
        new_path == Join(Parent(item), new_name)
    IN  IF ~IsDir(f, item) \/ IsCanonical(original_name) THEN [fs |-> f, actions |-> <<>>]
        ELSE IF ~Truthy(year)
            THEN [fs |-> f,
                  actions |-> <<[action |-> "skip", path |-> item,
                                 reason |-> "No year available"]>>]
        ELSE [fs |-> IF dry THEN f ELSE RenamePath(f, item, new_path).fs,
              actions |-> <<[action |-> "rename", old_path |-> item, new_path |-> new_path,
                             old_name |-> original_name, new_name |-> new_name]>>]

\* One iteration of rename_for_radarr's loop; looked_up is what lookup_movie_year
\* returns if it is called (None when the request fails or finds nothing)
RenameItem(f, item, looked_up, dry) ==
    LET original_name == Name(item)
        base_clean == clean_movie_name(original_name)
        found == extract_year(original_name)
        year == IF Truthy(found) THEN found ELSE looked_up
        new_name == base_clean \o " (" \o year \o ")"
        new_path == Join(Parent(item), new_name)
    IN  IF ~IsDir(f, item) \/ IsCanonical(original_name) THEN [fs |-> f, actions |-> <<>>]
        ELSE IF ~Truthy(year)
            THEN [fs |-> f,
                  actions |-> <<[action |-> "skip", path |-> item,
                                 reason |-> "No year available"]>>]
        ELSE IF Exists(f, new_path)
            THEN [fs |-> f,
                  actions |-> <<[action |-> "skip", path |-> item,
                                 reason |-> "Target " \o new_name \o " already exists"]>>]
        ELSE [fs |-> IF dry THEN f ELSE RenamePath(f, item, new_path).fs,
              actions |-> <<[action |-> "rename", old_path |-> item, new_path |-> new_path,
                             old_name |-> original_name, new_name |-> new_name]>>]

----------------------------------------------------------------------------
(* The executors as state machines: one step per action of the log, one for the
   end-of-run pass, and the replay of the same log on the filesystem left behind *)

\* The tree the executors run on: names "f" are files, the others directories
TreePaths == {"/a", "/a/b", "/a/b/f", "/a/f", "/d", "/d/f"}

TreeFs(S) == [p \in S |-> IF Name(p) = "f" THEN FileEntry(p, 1) ELSE DirEntry]

InitTrees == {TreeFs(S) : S \in {T \in SUBSET TreePaths : \A p \in T : Parent(p) \in T \cup {Root}}}

\* The entries a log is made of; some lack a required field, one is of no known type
LogActions ==
    {[action |-> "delete", source |-> p] : p \in {"/a", "/a/b/f", "/a/f", "/d/f"}}
    \cup {[action |-> "delete", path |-> "/a/b"],
          [action |-> "delete"],
          [action |-> "move", source |-> "/a/f", destination |-> "/d"],
          [action |-> "move", source |-> "/a/b/f"],
          [action |-> "rename", old_path |-> "/a/b", new_path |-> "/d"],
          [action |-> "keep", source |-> "/a/f"],
          [action |-> "skip", source |-> "/a", reason |-> "No year available"],
          [action |-> "copy", source |-> "/a/f"]}

Logs == UNION {[1..n -> LogActions] : n \in 0..MaxLogLen}

\* What another process may hold locked during a run
LockChoices == {{}, {"/a/f"}}

ZeroStats == [moved |-> 0, deleted |-> 0, kept |-> 0, errors |-> 0]

\* No script was started: the functions are called directly
NoMain ==
    /\ entry = "" /\ argv = <<>> /\ mode_in = "" /\ answer = None /\ log_exists = TRUE

NoLookups == [q \in {} |-> None]

NoPlan ==
    /\ all_actions = <<>> /\ items = <<>> /\ tmdb = None
    /\ listing = <<>> /\ lookups = NoLookups

\* downloads_import is not running
NoImport == files = <<>> /\ replace_better = FALSE /\ tokens = {} /\ quality = None

InitExec ==
    /\ NoImport
    /\ NoMain /\ NoPlan
    /\ prog \in {"file", "exec"}
    /\ fs \in InitTrees
    /\ fs_run = fs
    /\ actions \in Logs
    /\ dry_run \in (IF prog = "file" THEN BOOLEAN ELSE {FALSE})
    /\ locked \in (IF prog = "file" /\ ~dry_run THEN LockChoices ELSE {{}})
    /\ idx = 0
    /\ results = <<>>
    /\ folders_to_check = {}
    /\ stats = ZeroStats
    /\ errors = <<>>
    /\ pc = "loop"
    /\ run = 1

\* execute_actions_file: one iteration of `for idx, action in enumerate(actions, 1)`
FileStep ==
    /\ prog = "file" /\ pc = "loop" /\ idx < Len(actions)
    /\ LET st == FileAction(FileState(fs, results, folders_to_check),
                            actions[idx + 1], dry_run, locked)
       IN  /\ fs' = st.fs
           /\ results' = st.results
           /\ folders_to_check' = st.folders
    /\ idx' = idx + 1
    /\ UNCHANGED <<importVars, mainVars, planVars, prog, fs_run, locked, actions, dry_run, stats, errors, pc, run>>

\* execute_actions_file: the pass over folders_to_check, and the return
FileEnd ==
    /\ prog = "file" /\ pc = "loop" /\ idx = Len(actions)
    /\ fs' = FileCleanup(fs, Sorted(folders_to_check), dry_run, locked)
    /\ pc' = "done"
    /\ UNCHANGED <<importVars, mainVars, planVars, prog, fs_run, locked, actions, dry_run, idx, results,
                   folders_to_check, stats, errors, run>>

\* execute_all: one iteration of `for idx, action in enumerate(self.actions, 1)`
ExecStep ==
    /\ prog = "exec" /\ pc = "loop" /\ idx < Len(actions)
    /\ LET st == ExecAction(ExecState(fs, folders_to_check, stats, errors, FALSE),
                            actions[idx + 1], locked)
       IN  /\ fs' = st.fs
           /\ folders_to_check' = st.folders
           /\ stats' = st.stats
           /\ errors' = st.errors
           /\ pc' = IF st.crashed THEN "crashed" ELSE "loop"
           /\ idx' = IF st.crashed THEN idx ELSE idx + 1
    /\ UNCHANGED <<importVars, mainVars, planVars, prog, fs_run, locked, actions, dry_run, results, run>>

\* execute_all: cleanup_empty_folders and the summary
ExecEnd ==
    /\ prog = "exec" /\ pc = "loop" /\ idx = Len(actions)
    /\ fs' = cleanup_empty_folders(fs, Sorted(folders_to_check), locked)
    /\ pc' = "done"
    /\ UNCHANGED <<importVars, mainVars, planVars, prog, fs_run, locked, actions, dry_run, idx, results,
                   folders_to_check, stats, errors, run>>

\* The same log is executed again, live, on the filesystem the first run left
Replay ==
    /\ pc = "done" /\ run = 1 /\ ~dry_run
    /\ run' = 2
    /\ fs_run' = fs
    /\ idx' = 0
    /\ results' = <<>>
    /\ folders_to_check' = {}
    /\ stats' = ZeroStats
    /\ errors' = <<>>
    /\ pc' = "loop"
    /\ UNCHANGED <<importVars, mainVars, planVars, prog, fs, locked, actions, dry_run>>

NextExec == FileStep \/ FileEnd \/ ExecStep \/ ExecEnd \/ Replay

SpecExec == InitExec /\ [][NextExec]_vars

TypeOK ==
    /\ WellFormed(fs)
    /\ idx \in 0..(IF prog = "plan" THEN Len(items)
                   ELSE IF prog = "import" THEN Len(files) ELSE Len(actions))
    /\ pc \in {"main", "confirm", "loop", "duplicates", "rename", "done", "cancelled", "crashed"}

----------------------------------------------------------------------------
(* Properties of the executors *)

\* The action the loop is about to process
Looping == pc = "loop" /\ idx < Len(actions)
Current == actions[idx + 1]
CurrentSrc == Or(Get(Current, "source"), Get(Current, "path"))

\* C1: a second live run of execute_actions_file on the filesystem the first run left
\* creates, removes and renames nothing, the end-of-run pass included (stated for runs in
\* which no other process holds a file locked).
C1_FileReplayChangesNothing == (prog = "file" /\ run = 2 /\ locked = {}) => fs = fs_run

\* C2: a second run of ActionExecutor.execute_all on the filesystem the first run left
\* leaves the filesystem unchanged.
C2_ExecReplayChangesNothing == (prog = "exec" /\ run = 2) => fs = fs_run

\* execute_actions_file is about to apply a delete that raises at the filesystem level
FileRaises ==
    /\ prog = "file" /\ Looping /\ ~dry_run
    /\ Get(Current, "action") = "delete" /\ Truthy(CurrentSrc)
    /\ \/ IsFile(fs, CurrentSrc) /\ CurrentSrc \in locked
       \/ IsDir(fs, CurrentSrc) /\ \E c \in Iterdir(fs, CurrentSrc) : IsFile(fs, c) /\ c \in locked

\* execute_all is about to apply a move or a delete that raises at the filesystem level
ExecRaises ==
    /\ prog = "exec" /\ Looping
    /\ {"action", "source"} \subseteq DOMAIN Current
    /\ \/ Current.action = "delete" /\ ~IsFile(fs, Current.source)
       \/ /\ Current.action = "move" /\ "destination" \in DOMAIN Current
          /\ ~Exists(fs, Current.source)

C3_Step ==
    /\ FileRaises =>
          /\ Len(results') = Len(results) + 1
          /\ results'[Len(results')].action = "delete"
          /\ results'[Len(results')].status = "error"
          /\ idx' = idx + 1 /\ pc' = "loop"
    /\ ExecRaises =>
          /\ stats'.errors = stats.errors + 1
          /\ errors' = Append(errors, <<Current.action, Current.source, errors'[Len(errors')][3]>>)
          /\ idx' = idx + 1 /\ pc' = "loop"
    /\ pc' = "done" => idx' = Len(actions)

\* C3: when applying an action raises at the filesystem level, the failure is recorded for
\* that action (an error result / the errors counter and list) and the loop goes on to the
\* next action of the log; the run ends only after the last action.
C3_FailureIsolated == [][C3_Step]_vars

C3_Witness ==
    /\ prog = "file" /\ run = 1 /\ Len(results) = 2
    /\ results[1].status = "error" /\ results[1].error = "PermissionError"
    /\ results[2].status = "ok"

\* The entry lacks a field its type requires
MissingField(a) ==
    \/ Get(a, "action") = "delete" /\ ~Truthy(Or(Get(a, "source"), Get(a, "path")))
    \/ Get(a, "action") = "move" /\ (~Truthy(Get(a, "source")) \/ ~Truthy(Get(a, "destination")))

C4_Step ==
    (Looping /\ MissingField(Current)) =>
        /\ idx' = idx + 1 /\ pc' = "loop"
        /\ \/ prog = "file" /\ Len(results') = Len(results) + 1
                            /\ results'[Len(results')].status = "error"
           \/ prog = "exec" /\ stats'.errors = stats.errors + 1

\* C4: an entry that lacks a required field produces an error outcome for that entry only:
\* the run is not aborted and the loop goes on to the next action, in both executors.
C4_MissingFieldIsolated == [][C4_Step]_vars

\* C5: execute_actions_file returns exactly one result per action of the log, the i-th
\* result describing the i-th action.
C5_OneResultPerAction ==
    (prog = "file" /\ pc = "done") =>
        /\ Len(results) = Len(actions)
        /\ \A i \in 1..Len(actions) : results[i].action = Get(actions[i], "action")

\* C7: execute_actions_file with dry_run=True leaves the filesystem unchanged, while
\* processing the actions and in the end-of-run pass.
C7_DryRunChangesNothing == (prog = "file" /\ dry_run) => fs = fs_run

\* A finished dry run that logged a delete of an existing path and met an empty checked folder
C7_Witness ==
    /\ prog = "file" /\ dry_run /\ pc = "done"
    /\ \E i \in 1..Len(results) :
          results[i].status = "ok" /\ Exists(fs, results[i].source)
    /\ \E p \in folders_to_check : p # Root /\ IsDir(fs, p) /\ Iterdir(fs, p) = {}

\* execute_actions_file is about to apply a live delete to a directory
DirDelete ==
    /\ prog = "file" /\ Looping /\ ~dry_run
    /\ Get(Current, "action") = "delete" /\ Truthy(CurrentSrc)
    /\ IsDir(fs, CurrentSrc)

C9_Step ==
    DirDelete =>
        LET src == CurrentSrc
            childFiles == {q \in DOMAIN fs : Parent(q) = src /\ IsFile(fs, q)}
        IN  \* nothing is created, and nothing but child files and the directory is touched
            /\ DOMAIN fs' \subseteq DOMAIN fs
            /\ \A q \in DOMAIN fs' : fs'[q] = fs[q]
            /\ (DOMAIN fs \ DOMAIN fs') \subseteq childFiles \cup {src}
            \* the directory goes only if that emptied it
            /\ src \notin DOMAIN fs' => \A q \in DOMAIN fs : IsUnder(q, src) => q \in childFiles
            \* unless an unlink raised, the child files are gone and the result is ok
            /\ childFiles \cap locked = {} =>
                  /\ childFiles \cap DOMAIN fs' = {}
                  /\ results' = Append(results, [action |-> "delete", source |-> src,
                                                 status |-> "ok"])

C10_Step ==
    LET old == Or(Get(Current, "old_path"), Get(Current, "source"))
        new == Or(Get(Current, "new_path"), Get(Current, "destination"))
    IN  (/\ prog = "file" /\ Looping /\ ~dry_run
         /\ Get(Current, "action") = "rename"
         /\ Truthy(old) /\ Truthy(new) /\ Exists(fs, old) /\ ~Exists(fs, new))
        => /\ Exists(fs', new) /\ ~Exists(fs', old)
           /\ Len(results') = Len(results) + 1
           /\ results'[Len(results')].action = "rename"

\* C10: a live rename by execute_actions_file, old_path existing and new_path not, ends
\* with new_path existing and old_path absent, and yields a result for the action.
C10_RenameApplied == [][C10_Step]_vars

C11_Step ==
    LET source == Get(Current, "source")
        destination == Get(Current, "destination")
    IN  (/\ prog \in {"file", "exec"} /\ Looping /\ ~dry_run
         /\ Get(Current, "action") = "move"
         /\ Truthy(source) /\ Truthy(destination)
         /\ IsFile(fs, source) /\ source \notin locked)
        => /\ IsDir(fs', destination)
           /\ IsFile(fs', Join(destination, Name(source)))
           /\ Join(destination, Name(source)) # source => ~Exists(fs', source)
           /\ Parent(source) \in folders_to_check'

\* C11: a live move whose source file exists, by execute_actions_file and by
\* ActionExecutor.execute_move, creates the destination directory if absent, leaves the
\* file at destination/<basename> and absent from its old path, and puts the source's
\* parent in the set the end-of-run cleanup checks.
C11_MoveApplied == [][C11_Step]_vars

\* C12: when a live run of execute_actions_file or of execute_all has finished, no
\* directory that was the parent of a source deleted or moved in the run (a member of
\* folders_to_check) still exists and is empty.
C12_NoEmptyTouchedParent ==
    (prog \in {"file", "exec"} /\ pc = "done" /\ ~dry_run /\ locked = {}) =>
        \A p \in folders_to_check \ {Root} : ~(IsDir(fs, p) /\ Iterdir(fs, p) = {})

C13_Step ==
    (prog \in {"file", "exec"} /\ Looping /\ Get(Current, "action") \in {"keep", "skip"}) =>
        /\ fs' = fs
        /\ folders_to_check' = folders_to_check
        /\ idx' = idx + 1
        /\ \/ /\ prog = "file"
              /\ results' = Append(results, [action |-> Current.action, status |-> "skipped"])
           \/ /\ prog = "exec"
              /\ stats' = [stats EXCEPT !.kept = @ + 1]

\* C13: a keep or a skip action leaves the filesystem and the touched-parent set
\* unchanged and adds one record (execute_actions_file: a result of status skipped) or one
\* count (execute_all: stats kept) for the action.
C13_KeepSkipRecorded == [][C13_Step]_vars

----------------------------------------------------------------------------
(* The cleanup planner as a state machine: handle_duplicates, then one step per
   item of rename_for_radarr's loop *)

\* The top-level folders a library is drawn from
LibNames == {"Alien", "alien", "Alien (1979)", "Heat_(1995)"}

\* A library: each folder of `sizes` holds one video file of that size
LibFs(sizes) ==
    LET dirs == {Join(Root, n) : n \in DOMAIN sizes}
        videos == {Join(d, "m.mkv") : d \in dirs}
    IN  [p \in dirs \cup videos |->
            IF p \in dirs THEN DirEntry ELSE FileEntry(p, sizes[Name(Parent(p))])]

InitLibraries == {LibFs(sizes) : sizes \in UNION {[N -> 1..MaxSize] : N \in SUBSET LibNames}}

\* What lookup_movie_year may return: None (the request failed or found nothing) or a year
TmdbAnswers == {None, "1979"}

\* All orders in which root.iterdir() may yield the items of S
RECURSIVE Orders(_)
Orders(S) ==
    IF S = {} THEN {<<>>}
    ELSE UNION {{<<x>> \o o : o \in Orders(S \ {x})} : x \in S}

NoExec ==
    /\ locked = {} /\ actions = <<>> /\ results = <<>> /\ folders_to_check = {}
    /\ stats = ZeroStats /\ errors = <<>> /\ run = 1

InitPlan ==
    /\ NoImport
    /\ NoMain /\ NoExec /\ NoPlan
    /\ prog = "plan"
    /\ fs \in InitLibraries
    /\ fs_run = fs
    /\ dry_run \in BOOLEAN
    /\ idx = 0
    /\ pc = "duplicates"

\* The answers so far, with the one given for this item
Answered(table, item, looked_up) ==
    [q \in DOMAIN table \cup {item} |-> IF q = item THEN looked_up ELSE table[q]]

\* handle_duplicates(dry_run), and the start of rename_for_radarr(dry_run)
HandleDuplicates ==
    /\ prog = "plan" /\ pc = "duplicates"
    /\ \E order \in Orders(Iterdir(fs, Root)) :
          \E r \in {handle_duplicates(fs, order, dry_run)} :
              /\ fs' = r.fs
              /\ all_actions' = r.actions
              /\ items' = Sorted(Iterdir(r.fs, Root))
              /\ listing' = order
    /\ idx' = 0
    /\ pc' = "rename"
    /\ UNCHANGED <<importVars, mainVars, prog, fs_run, locked, actions, dry_run, results,
                   folders_to_check, stats, errors, run, tmdb, lookups>>

\* rename_for_radarr: one iteration of `for item in sorted(root.iterdir())`
RenameStep ==
    /\ prog = "plan" /\ pc = "rename" /\ idx < Len(items)
    /\ \E looked_up \in TmdbAnswers :
          \E r \in {RenameItem(fs, items[idx + 1], looked_up, dry_run)} :
              /\ fs' = r.fs
              /\ all_actions' = all_actions \o r.actions
              /\ tmdb' = IF LooksUp(fs, items[idx + 1]) THEN looked_up ELSE tmdb
              /\ lookups' = IF LooksUp(fs, items[idx + 1])
                             THEN Answered(lookups, items[idx + 1], looked_up) ELSE lookups
    /\ idx' = idx + 1
    /\ UNCHANGED <<importVars, mainVars, prog, fs_run, locked, actions, dry_run, results,
                   folders_to_check, stats, errors, items, listing, pc, run>>

\* rename_for_radarr returns and main saves the action log
PlanEnd ==
    /\ prog = "plan" /\ pc = "rename" /\ idx = Len(items)
    /\ pc' = "done"
    /\ UNCHANGED <<importVars, mainVars, planVars, prog, fs, fs_run, locked, actions, dry_run, idx,
                   results, folders_to_check, stats, errors, run>>

NextPlan == HandleDuplicates \/ RenameStep \/ PlanEnd

SpecPlan == InitPlan /\ [][NextPlan]_vars

TopFolders(f) == {p \in Iterdir(f, Root) : IsDir(f, p)}
SameTitle(f, p) == {q \in TopFolders(f) : clean_movie_name(Name(q)) = clean_movie_name(Name(p))}
HasYear(p) == extract_year(Name(p)) # None

\* The delete actions of a list, and the paths they name
DeleteIndexes(acts) == {i \in 1..Len(acts) : acts[i].action = "delete"}
DeletedPaths(acts) == {acts[i].path : i \in DeleteIndexes(acts)}

\* handle_duplicates has returned
Resolved == prog = "plan" /\ pc \in {"rename", "done"}

\* C17: for every group of two or more top-level folders of one clean name exactly one
\* folder is kept: one with a year whenever a member has one, whatever the sizes, and the
\* largest of the members of its has-year class; a delete action annotated with the
\* keeper's name is emitted once for every other member and never for the keeper; a
\* folder that is alone in its group is not deleted.
C17_KeeperByYearThenSize ==
    Resolved =>
        /\ Cardinality(DeleteIndexes(all_actions)) = Cardinality(DeletedPaths(all_actions))
        /\ DeletedPaths(all_actions) \subseteq TopFolders(fs_run)
        /\ \A p \in TopFolders(fs_run) :
              LET G == SameTitle(fs_run, p)
                  deleted == G \cap DeletedPaths(all_actions)
              IN  IF Cardinality(G) < 2 THEN deleted = {}
                  ELSE \E keep \in G :
                          /\ deleted = G \ {keep}
                          /\ (\E m \in G : HasYear(m)) => HasYear(keep)
                          /\ \A m \in G : HasYear(m) = HasYear(keep) =>
                                FolderSize(fs_run, keep) >= FolderSize(fs_run, m)
                          /\ \A i \in DeleteIndexes(all_actions) :
                                all_actions[i].path \in G =>
                                    all_actions[i].reason = "Duplicate of " \o Name(keep)

\* Alien (1979) is kept although Alien is larger, and both other folders of the group go
C17_Witness ==
    /\ Resolved /\ pc = "done"
    /\ {"/Alien", "/alien", "/Alien (1979)"} \subseteq TopFolders(fs_run)
    /\ FolderSize(fs_run, "/Alien") > FolderSize(fs_run, "/Alien (1979)")
    /\ DeletedPaths(all_actions) = {"/Alien", "/alien"}

C18_Step ==
    (prog = "plan" /\ pc = "duplicates") =>
        DeletedPaths(all_actions') =
            DeletedPaths(handle_duplicates(fs, Sorted(Iterdir(fs, Root)), TRUE).actions)

\* C18: handle_duplicates chooses the same keeper, hence deletes the same folders, for
\* every order in which root.iterdir() yields the folders (compared here with the order
\* sorted by name), ties on has-year and size included.
C18_OrderIndependent == [][C18_Step]_vars

----------------------------------------------------------------------------
(* The scripts' main functions: the command line, the prompts, and the hand-over to
   the planner or to an executor *)

\* str.strip()
RECURSIVE RStrip(_)
RStrip(s) ==
    IF s # "" /\ IsSpace(At(s, Len(s))) THEN RStrip(SubSeq(s, 1, Len(s) - 1)) ELSE s

Strip(s) == LET t == RStrip(s) IN SubSeq(t, LeadingSpaces(t) + 1, Len(t))

\* str.endswith
EndsWith(s, suffix) ==
    Len(s) >= Len(suffix) /\ SubSeq(s, Len(s) - Len(suffix) + 1, Len(s)) = suffix

\* x in sys.argv
InArgv(x, args) == \E i \in 1..Len(args) : args[i] = x

\* The module-level default of movie_cleanup
DRY_RUN == TRUE

\* movie_cleanup.main: execute_mode and actions_file are set
execute_mode(args) == Len(args) > 0 /\ EndsWith(args[1], ".json")

\* movie_cleanup.main: the value of dry_run after the command line is parsed
ParseDryRun(args) ==
    LET live == IF Len(args) > 0 /\ (InArgv("--live", args) \/ InArgv("--no-dry-run", args))
                THEN FALSE ELSE DRY_RUN
    IN  IF Len(args) > 0 /\ InArgv("--dry-run", args) THEN TRUE ELSE live

\* The mutant of cleanup_confirmed that goes on unless the answer is no
cleanup_confirmed_NotNo(response) == Lower(response) # "no"

\* movie_cleanup.main goes on after the prompt: not (response.lower() != 'yes')
cleanup_confirmed(response) == Lower(response) = "yes"

\* movie_cleanup_2.main goes on after the prompt: input(...).strip().lower() == 'yes'
cleanup2_confirmed(confirm) == Lower(Strip(confirm)) = "yes"

\* Command lines of movie_cleanup (sys.argv[1:])
CommandLines ==
    {<<>>, <<"--live">>, <<"--dry-run">>, <<"--live", "--dry-run">>,
     <<"a.json">>, <<"a.json", "--live">>, <<"a.json", "--no-dry-run">>,
     <<"--live", "a.json">>}

\* What the user may type at the mode prompt of movie_cleanup_2
ModeInputs == {"1", "2", " 2 ", "3"}

\* What the user may type at a confirmation prompt
Answers == {"yes", "YES", " yes", "no", "y", ""}

\* The library the scripts are started on, and the action files they may be given
MainFs == LibFs([n \in {"Alien", "alien"} |-> 1])

MainLogs ==
    {<<>>,
     <<[action |-> "delete", source |-> "/alien/m.mkv"]>>,
     <<[action |-> "move", source |-> "/Alien/m.mkv", destination |-> "/TV"],
       [action |-> "keep", source |-> "/alien/m.mkv"]>>}

InitMain ==
    /\ NoImport
    /\ NoPlan
    /\ entry \in {"movie_cleanup", "movie_cleanup_2"}
    /\ argv \in (IF entry = "movie_cleanup" THEN CommandLines ELSE {<<>>})
    /\ mode_in \in (IF entry = "movie_cleanup_2" THEN ModeInputs ELSE {""})
    /\ answer = None
    /\ log_exists \in BOOLEAN
    /\ prog = ""
    /\ fs = MainFs
    /\ fs_run = fs
    /\ locked = {}
    /\ actions \in MainLogs
    /\ dry_run = (entry = "movie_cleanup" /\ DRY_RUN)
    /\ idx = 0
    /\ results = <<>>
    /\ folders_to_check = {}
    /\ stats = ZeroStats
    /\ errors = <<>>
    /\ pc = "main"
    /\ run = 1

\* movie_cleanup.main past the prompt: execute_actions_file (which returns at once when
\* the actions file is missing) or the planner
CleanupStart ==
    IF execute_mode(argv)
    THEN prog' = "file" /\ pc' = (IF log_exists THEN "loop" ELSE "done")
    ELSE prog' = "plan" /\ pc' = "duplicates"

\* movie_cleanup.main: the command line, up to the prompt of a live run
CleanupMain ==
    /\ entry = "movie_cleanup" /\ pc = "main"
    /\ dry_run' = ParseDryRun(argv)
    /\ IF ParseDryRun(argv) THEN CleanupStart ELSE prog' = prog /\ pc' = "confirm"
    /\ UNCHANGED <<importVars, mainVars, planVars, fs, fs_run, locked, actions, idx, results,
                   folders_to_check, stats, errors, run>>

\* movie_cleanup.main: the answer to "LIVE MODE - ... Continue? (yes/no)"
CleanupConfirm ==
    /\ entry = "movie_cleanup" /\ pc = "confirm"
    /\ \E response \in Answers :
          /\ answer' = response
          /\ IF cleanup_confirmed(response) THEN CleanupStart
             ELSE prog' = prog /\ pc' = "cancelled"
    /\ UNCHANGED <<importVars, entry, argv, mode_in, log_exists, planVars, fs, fs_run, locked, actions,
                   dry_run, idx, results, folders_to_check, stats, errors, run>>

\* movie_cleanup_2.main: the mode prompt; mode 1 reviews files and writes actions.json,
\* mode 2 asks for the actions file and stops if it is missing
Cleanup2Main ==
    /\ entry = "movie_cleanup_2" /\ pc = "main"
    /\ pc' = (IF Strip(mode_in) = "2" /\ log_exists THEN "confirm" ELSE "done")
    /\ UNCHANGED <<importVars, mainVars, planVars, prog, fs, fs_run, locked, actions, dry_run, idx,
                   results, folders_to_check, stats, errors, run>>

\* movie_cleanup_2.main: the answer to "Are you sure you want to proceed? (yes/no)"
Cleanup2Confirm ==
    /\ entry = "movie_cleanup_2" /\ pc = "confirm"
    /\ \E confirm \in Answers :
          /\ answer' = confirm
          /\ IF cleanup2_confirmed(confirm) THEN prog' = "exec" /\ pc' = "loop"
             ELSE prog' = prog /\ pc' = "cancelled"
    /\ UNCHANGED <<importVars, entry, argv, mode_in, log_exists, planVars, fs, fs_run, locked, actions,
                   dry_run, idx, results, folders_to_check, stats, errors, run>>

NextMain ==
    \/ CleanupMain \/ CleanupConfirm \/ Cleanup2Main \/ Cleanup2Confirm
    \/ FileStep \/ FileEnd \/ ExecStep \/ ExecEnd
    \/ HandleDuplicates \/ RenameStep \/ PlanEnd

SpecMain == InitMain /\ [][NextMain]_vars

\* The answer is yes, whatever its letter case and the blanks around it
IsYes(a) == Lower(Strip(a)) = "yes"

\* C8: in movie_cleanup.main and movie_cleanup_2.main the filesystem differs from the one
\* the script was started on only after the confirmation prompt was answered yes; after
\* any other answer the run is cancelled and the filesystem is the one it was started on.
C8_ConfirmationPrecedesMutation ==
    /\ fs # fs_run => (answer # None /\ IsYes(answer))
    /\ (answer # None /\ ~IsYes(answer)) => (pc = "cancelled" /\ fs = fs_run)

\* A live run of movie_cleanup, confirmed with yes, has finished and changed the library
C8_Witness ==
    /\ entry = "movie_cleanup" /\ ~dry_run /\ answer = "yes" /\ pc = "done" /\ fs # fs_run

----------------------------------------------------------------------------
(* downloads_import.py: the name functions of the importer *)

\* The character at position i, "" outside the string
CharAt(s, i) == IF i >= 1 /\ i <= Len(s) THEN SubSeq(s, i, i) ELSE ""

\* \w of a regular expression
WordChars ==
    {SubSeq(LowerCase, i, i) : i \in 1..Len(LowerCase)}
    \cup {SubSeq(UpperCase, i, i) : i \in 1..Len(UpperCase)}
    \cup {SubSeq(Digits, i, i) : i \in 1..Len(Digits)} \cup {"_"}

IsWordChar(c) == c \in WordChars

\* w occurs in s at position i
MatchAt(s, w, i) == i + Len(w) - 1 <= Len(s) /\ SubSeq(s, i, i + Len(w) - 1) = w

\* pattern in s, for str
Contains(s, w) == \E i \in 1..Len(s) : MatchAt(s, w, i)

\* re.search(r'\b(w1|w2|...)\b', s, re.IGNORECASE), ls being s in lower case and W the
\* alternatives in lower case (each begins and ends with a word character)
HasWord(ls, W) ==
    \E i \in 1..Len(ls) :
        /\ ~IsWordChar(CharAt(ls, i - 1))
        /\ \E w \in W : MatchAt(ls, w, i) /\ ~IsWordChar(CharAt(ls, i + Len(w)))

\* The alternatives of the patterns of extract_quality_info
CodecModern == {"x265", "hevc", "h265", "h.265", "av1"}
CodecOlder == {"x264", "h264", "h.264", "avc"}
HdrWords == {"hdr", "hdr10", "dovi", "dolbyvision", "dolby vision", "dolby.vision"}
SourceWeb == {"web-dl", "webdl", "webrip"}
AudioHigh == {"atmos", "truehd", "dts-hd", "dts-x"}
AudioStandard == {"ddp", "dd5.1", "dd+5.1", "dd.5.1", "ac3"}

\* The mutant of ScoreLowered that adds up every resolution tier that matches
ScoreLowered_AllTiers(ls) ==
    LET resolution == IF HasWord(ls, {"2160p"}) THEN 2160
                      ELSE IF HasWord(ls, {"1080p"}) THEN 1080
                      ELSE IF HasWord(ls, {"720p"}) THEN 720
                      ELSE IF HasWord(ls, {"480p"}) THEN 480 ELSE 0
        res_score == (IF HasWord(ls, {"2160p"}) THEN 4000 ELSE 0)
                     + (IF HasWord(ls, {"1080p"}) THEN 2000 ELSE 0)
                     + (IF HasWord(ls, {"720p"}) THEN 1000 ELSE 0)
                     + (IF HasWord(ls, {"480p"}) THEN 500 ELSE 0)
        codec == IF HasWord(ls, CodecModern) THEN "x265/HEVC/AV1"
                 ELSE IF HasWord(ls, CodecOlder) THEN "x264/H.264" ELSE ""
        codec_score == IF codec = "x265/HEVC/AV1" THEN 300 ELSE IF codec = "x264/H.264" THEN 200 ELSE 0
        is_hdr == HasWord(ls, HdrWords)
        source_score == IF HasWord(ls, {"bluray"}) THEN 400
                        ELSE IF HasWord(ls, SourceWeb) THEN 300
                        ELSE IF HasWord(ls, {"hdtv"}) THEN 200 ELSE 0
        audio == IF HasWord(ls, AudioHigh) THEN "High-quality audio"
                 ELSE IF HasWord(ls, AudioStandard) THEN "Standard audio" ELSE ""
        audio_score == IF audio = "High-quality audio" THEN 100
                       ELSE IF audio = "Standard audio" THEN 50 ELSE 0
    IN  [score |-> res_score + codec_score + (IF is_hdr THEN 500 ELSE 0) + source_score
                   + audio_score,
         resolution |-> resolution, codec |-> codec, is_hdr |-> is_hdr, audio |-> audio]

\* The body of extract_quality_info, ls being the filename in lower case (re.IGNORECASE)
ScoreLowered(ls) ==
    LET resolution == IF HasWord(ls, {"2160p"}) THEN 2160
                      ELSE IF HasWord(ls, {"1080p"}) THEN 1080
                      ELSE IF HasWord(ls, {"720p"}) THEN 720
                      ELSE IF HasWord(ls, {"480p"}) THEN 480 ELSE 0
        res_score == IF resolution = 2160 THEN 4000
                     ELSE IF resolution = 1080 THEN 2000
                     ELSE IF resolution = 720 THEN 1000
                     ELSE IF resolution = 480 THEN 500 ELSE 0
        codec == IF HasWord(ls, CodecModern) THEN "x265/HEVC/AV1"
                 ELSE IF HasWord(ls, CodecOlder) THEN "x264/H.264" ELSE ""
        codec_score == IF codec = "x265/HEVC/AV1" THEN 300 ELSE IF codec = "x264/H.264" THEN 200 ELSE 0
        is_hdr == HasWord(ls, HdrWords)
        source_score == IF HasWord(ls, {"bluray"}) THEN 400
                        ELSE IF HasWord(ls, SourceWeb) THEN 300
                        ELSE IF HasWord(ls, {"hdtv"}) THEN 200 ELSE 0
        audio == IF HasWord(ls, AudioHigh) THEN "High-quality audio"
                 ELSE IF HasWord(ls, AudioStandard) THEN "Standard audio" ELSE ""
        audio_score == IF audio = "High-quality audio" THEN 100
                       ELSE IF audio = "Standard audio" THEN 50 ELSE 0
    IN  [score |-> res_score + codec_score + (IF is_hdr THEN 500 ELSE 0) + source_score
                   + audio_score,
         resolution |-> resolution, codec |-> codec, is_hdr |-> is_hdr, audio |-> audio]

\* extract_quality_info: (quality_score, info)
extract_quality_info(filename) == ScoreLowered(Lower(filename))

----------------------------------------------------------------------------
(* extract_quality_info applied to filenames made of quality tags *)

\* The tags a filename is made of, by axis
ResTags == {"2160p", "1080p", "720p", "480p"}
CodecTags == {"x265", "x264"}
HdrTags == {"HDR10"}
SourceTags == {"BluRay", "WEB-DL", "HDTV"}
AudioTags == {"Atmos", "AC3"}

TagSets ==
    {r \cup c \cup h \cup o \cup a :
        r \in SUBSET ResTags, c \in SUBSET CodecTags, h \in SUBSET HdrTags,
        o \in SUBSET SourceTags, a \in SUBSET AudioTags}

\* The order of the tags in a name: within an axis the lower tiers come first
TagOrder ==
    <<"480p", "720p", "1080p", "2160p", "x264", "x265", "HDR10", "HDTV", "WEB-DL", "BluRay",
      "AC3", "Atmos">>

\* Movie.<tag>.<tag>. ... .mkv
QualityName(T) ==
    "Movie." \o JoinWords(SelectSeq(TagOrder, LAMBDA t : t \in T) \o <<"mkv">>, ".")

InitQuality ==
    /\ NoMain /\ NoExec /\ NoPlan
    /\ prog = "quality"
    /\ fs = <<>> /\ fs_run = fs
    /\ dry_run = FALSE
    /\ idx = 0
    /\ replace_better = FALSE
    /\ tokens \in TagSets
    /\ files = <<QualityName(tokens)>>
    /\ quality = None
    /\ pc = "main"

\* extract_quality_info(filename)
ScoreStep ==
    /\ prog = "quality" /\ pc = "main"
    /\ quality' = extract_quality_info(files[1])
    /\ pc' = "done"
    /\ UNCHANGED <<mainVars, planVars, prog, fs, fs_run, locked, actions, dry_run, idx,
                   results, folders_to_check, stats, errors, run, files, replace_better,
                   tokens>>

NextQuality == ScoreStep

SpecQuality == InitQuality /\ [][NextQuality]_vars

\* The value of each axis for a set of tags: that of its highest tier
ResValue(T) ==
    IF "2160p" \in T THEN 4000 ELSE IF "1080p" \in T THEN 2000
    ELSE IF "720p" \in T THEN 1000 ELSE IF "480p" \in T THEN 500 ELSE 0
CodecValue(T) == IF "x265" \in T THEN 300 ELSE IF "x264" \in T THEN 200 ELSE 0
HdrValue(T) == IF "HDR10" \in T THEN 500 ELSE 0
SourceValue(T) ==
    IF "BluRay" \in T THEN 400 ELSE IF "WEB-DL" \in T THEN 300
    ELSE IF "HDTV" \in T THEN 200 ELSE 0
AudioValue(T) == IF "Atmos" \in T THEN 100 ELSE IF "AC3" \in T THEN 50 ELSE 0

\* The same tags with the resolution one tier up (none for 2160p)
NextTier(T) ==
    LET rest == T \ ResTags
    IN  IF "2160p" \in T THEN {}
        ELSE IF "1080p" \in T THEN {rest \cup {"2160p"}}
        ELSE IF "720p" \in T THEN {rest \cup {"1080p"}}
        ELSE IF "480p" \in T THEN {rest \cup {"720p"}}
        ELSE {rest \cup {"480p"}}

\* C20: the quality score is the sum of one value per axis, each axis counting only its
\* highest matching tier (resolution 4000/2000/1000/500/0, codec 300/200/0, HDR 500/0,
\* source 400/300/200/0, audio 100/50/0); with the other axes fixed, the score of the next
\* resolution tier is strictly greater.
C20_ScoreIsSumOfAxes ==
    (prog = "quality" /\ pc = "done") =>
        /\ quality.score = ResValue(tokens) + CodecValue(tokens) + HdrValue(tokens)
                           + SourceValue(tokens) + AudioValue(tokens)
        /\ \A T \in NextTier(tokens) :
              extract_quality_info(QualityName(T)).score > quality.score

\* A name with two resolutions, a codec, HDR, a source and an audio tag was scored
C20_Witness ==
    /\ prog = "quality" /\ pc = "done"
    /\ tokens = {"1080p", "720p", "x265", "HDR10", "BluRay", "Atmos"}
    /\ quality.score = 3300

----------------------------------------------------------------------------
(* downloads_import.py: what a filename says about the file *)

DigitChars == {SubSeq(Digits, i, i) : i \in 1..Len(Digits)}
IsDigitChar(c) == c \in DigitChars

\* [.\s] of the patterns
IsSep(c) == c \in {".", " "}

\* The end of the run of separators that begins at position k: the first position after it
RECURSIVE SepRunEnd(_, _)
SepRunEnd(s, k) == IF IsSep(CharAt(s, k)) THEN SepRunEnd(s, k + 1) ELSE k

\* S\d{1,2}E\d{1,2} at position p of a string in lower case: the number of digits of the
\* season, 0 for no match
SeasonDigitsS(ls, p) ==
    IF CharAt(ls, p) = "s" /\ IsDigitChar(CharAt(ls, p + 1))
    THEN IF IsDigitChar(CharAt(ls, p + 2)) /\ CharAt(ls, p + 3) = "e"
              /\ IsDigitChar(CharAt(ls, p + 4)) THEN 2
         ELSE IF CharAt(ls, p + 2) = "e" /\ IsDigitChar(CharAt(ls, p + 3)) THEN 1 ELSE 0
    ELSE 0

\* \d{1,2}x\d{1,2} at position p: the number of digits of the season, 0 for no match
SeasonDigitsX(ls, p) ==
    IF IsDigitChar(CharAt(ls, p))
    THEN IF IsDigitChar(CharAt(ls, p + 1)) /\ CharAt(ls, p + 2) = "x"
              /\ IsDigitChar(CharAt(ls, p + 3)) THEN 2
         ELSE IF CharAt(ls, p + 1) = "x" /\ IsDigitChar(CharAt(ls, p + 2)) THEN 1 ELSE 0
    ELSE 0

\* (?:19|20)\d{2} at position p: its length, 0 for no match
YearDigits(ls, p) ==
    IF SubSeq(ls, p, p + 1) \in {"19", "20"} /\ IsDigitChar(CharAt(ls, p + 2))
       /\ IsDigitChar(CharAt(ls, p + 3)) THEN 4 ELSE 0

\* re.search(r'(.+?)[.\s]+<marker>', s): the position where the separators after group 1
\* begin, 0 for no match. Group 1 is lazy, so it is the shortest prefix that a run of
\* separators and the marker follow.
FirstPrefix(ls, Marker(_, _)) ==
    LET K == {k \in 2..Len(ls) : IsSep(CharAt(ls, k)) /\ Marker(ls, SepRunEnd(ls, k)) > 0}
    IN  IF K = {} THEN 0 ELSE CHOOSE k \in K : \A j \in K : k <= j

\* str.replace('.', ' ')
RECURSIVE ReplaceDots(_)
ReplaceDots(s) ==
    IF s = "" THEN "" ELSE (IF Head(s) = "." THEN " " ELSE Head(s)) \o ReplaceDots(Tail(s))

\* int(s) for a string of digits
RECURSIVE ToInt(_)
ToInt(s) ==
    IF s = "" THEN 0
    ELSE 10 * ToInt(SubSeq(s, 1, Len(s) - 1)) + IndexFrom(Digits, CharAt(s, Len(s)), 1) - 1

\* extract_tv_show_info: (show_name, season_num), (None, None) when neither pattern matches
extract_tv_show_info(filename) ==
    LET ls == Lower(filename)
        k1 == FirstPrefix(ls, SeasonDigitsS)
        p1 == SepRunEnd(ls, k1)
        k2 == FirstPrefix(ls, SeasonDigitsX)
        p2 == SepRunEnd(ls, k2)
    IN  IF k1 > 0
        THEN [show_name |-> Strip(ReplaceDots(SubSeq(filename, 1, k1 - 1))),
              season_num |-> ToInt(SubSeq(filename, p1 + 1, p1 + SeasonDigitsS(ls, p1)))]
        ELSE IF k2 > 0
        THEN [show_name |-> Strip(ReplaceDots(SubSeq(filename, 1, k2 - 1))),
              season_num |-> ToInt(SubSeq(filename, p2, p2 + SeasonDigitsX(ls, p2) - 1))]
        ELSE [show_name |-> None, season_num |-> None]

\* re.sub(r'\.(mkv|mp4|avi)$', '', s, flags=re.IGNORECASE)
StripExtension(s) ==
    IF \E e \in {".mkv", ".mp4", ".avi"} : EndsWith(Lower(s), e)
    THEN SubSeq(s, 1, Len(s) - 4) ELSE s

IsPunct(c) == c \in {".", "-", "_"}

\* re.sub(r'[\.\-_]+', ' ', s)
RECURSIVE CollapsePunct(_)
CollapsePunct(s) ==
    IF s = "" THEN ""
    ELSE IF IsPunct(Head(s))
        THEN (IF IsPunct(CharAt(s, 2)) THEN "" ELSE " ") \o CollapsePunct(Tail(s))
    ELSE Head(s) \o CollapsePunct(Tail(s))

\* The tags of extract_movie_info, in lower case
TitleTags ==
    {"1080p", "720p", "2160p", "bluray", "web-dl", "x265", "x264", "rarbg", "hevc", "h.264",
     "h.265"}

\* The first position where re.search(r'\b(w1|w2|...)\b', s, re.IGNORECASE) matches, 0 for none
FirstWord(ls, W) ==
    LET I == {i \in 1..Len(ls) :
                 /\ ~IsWordChar(CharAt(ls, i - 1))
                 /\ \E w \in W : MatchAt(ls, w, i) /\ ~IsWordChar(CharAt(ls, i + Len(w)))}
    IN  IF I = {} THEN 0 ELSE CHOOSE i \in I : \A j \in I : i <= j

\* re.sub(r'\b(1080p|...)\b.*$', '', s, flags=re.IGNORECASE)
CutAtTag(s) ==
    LET i == FirstWord(Lower(s), TitleTags)
    IN  IF i = 0 THEN s ELSE SubSeq(s, 1, i - 1)

\* extract_movie_info: the name of the movie's folder
extract_movie_info(filename) ==
    LET ls == Lower(filename)
        k == FirstPrefix(ls, YearDigits)
        p == SepRunEnd(ls, k)
    IN  IF k > 0
        THEN Strip(ReplaceDots(SubSeq(filename, 1, k - 1))) \o " ("
             \o SubSeq(filename, p, p + 3) \o ")"
        ELSE Strip(CutAtTag(CollapsePunct(StripExtension(filename))))

\* is_tv_show
is_tv_show(filename) ==
    LET ls == Lower(filename)
    IN  \/ \E p \in 1..Len(ls) : SeasonDigitsS(ls, p) > 0
        \/ \E p \in 1..Len(ls) : SeasonDigitsX(ls, p) > 0

\* is_music
is_music(filename) ==
    LET ls == Lower(filename)
    IN  \E pattern \in {"album", "soundtrack", "ost", "music"} : Contains(ls, pattern)

----------------------------------------------------------------------------
(* downloads_import.py: the copy functions *)

\* os.path.join(d, n)
JoinPath(d, n) == IF n = "" THEN d ELSE Join(d, n)

\* shutil.copy2(src, dst)
Copy2(f, src, dst, lck) ==
    LET real_dst == IF IsDir(f, dst) THEN Join(dst, Name(src)) ELSE dst
    IN  IF ~Exists(f, src) THEN Outcome(f, "FileNotFoundError")
        ELSE IF IsDir(f, src) THEN Outcome(f, "IsADirectoryError")
        ELSE IF src = real_dst THEN Outcome(f, "SameFileError")
        ELSE IF ~IsDir(f, Parent(real_dst)) THEN Outcome(f, "FileNotFoundError")
        ELSE IF IsDir(f, real_dst) THEN Outcome(f, "IsADirectoryError")
        ELSE IF Exists(f, real_dst) /\ real_dst \in lck THEN Outcome(f, "PermissionError")
        ELSE Outcome([q \in DOMAIN f \cup {real_dst} |->
                         IF q = real_dst THEN f[src] ELSE f[q]], "")

\* check_file_exists_in_tree: the paths os.walk can meet first, by the order in which it
\* visits sibling directories; a directory is visited before the directories below it.
\* The empty set stands for None.
check_file_exists_in_tree(f, root_folder, filename) ==
    LET found == {q \in DOMAIN f :
                     /\ IsFile(f, q) /\ Name(q) = filename
                     /\ IsDir(f, root_folder) /\ IsUnder(q, root_folder)}
    IN  {q \in found : \A o \in found : ~IsUnder(Parent(q), Parent(o))}

\* compare_quality: (is_better, new_score, existing_score). The scores are taken from the
\* two paths as given; getsize raising (a path that is no file) leaves them as they are.
Comparison(f, new_file, existing_file) ==
    LET new_score == extract_quality_info(new_file).score
        existing_score == extract_quality_info(existing_file).score
        bonus == IF new_score = existing_score /\ IsFile(f, new_file)
                    /\ IsFile(f, existing_file)
                    /\ 10 * f[new_file].size > 11 * f[existing_file].size THEN 50 ELSE 0
    IN  [is_better |-> new_score + bonus > existing_score,
         new_score |-> new_score + bonus, existing_score |-> existing_score]

\* compare_quality: is_better
compare_quality(f, new_file, existing_file) == Comparison(f, new_file, existing_file).is_better

\* What a copy function returns and the filesystem it leaves
Returned(f, result) == [fs |-> f, result |-> result]

\* The mutant of ExistingFound that compares the qualities whatever the replace flag says
ExistingFound_IgnoreFlag(f, source_path, existing_path, dry, replace, lck) ==
    IF compare_quality(f, source_path, existing_path)
    THEN IF dry THEN Returned(f, "would_replace")
         ELSE LET removed == Unlink(f, existing_path, lck)
                  copied == Copy2(removed.fs, source_path, existing_path, lck)
              IN  IF removed.raised # "" THEN Returned(removed.fs, "error")
                  ELSE IF copied.raised # "" THEN Returned(copied.fs, "error")
                  ELSE Returned(copied.fs, "replaced")
    ELSE Returned(f, "skipped")

\* The branch the three copy functions share, taken when a same-named file was found
ExistingFound(f, source_path, existing_path, dry, replace, lck) ==
    IF replace /\ compare_quality(f, source_path, existing_path)
    THEN IF dry THEN Returned(f, "would_replace")
         ELSE LET removed == Unlink(f, existing_path, lck)
                  copied == Copy2(removed.fs, source_path, existing_path, lck)
              IN  IF removed.raised # "" THEN Returned(removed.fs, "error")
                  ELSE IF copied.raised # "" THEN Returned(copied.fs, "error")
                  ELSE Returned(copied.fs, "replaced")
    ELSE Returned(f, "skipped")

\* The branch the three copy functions share, taken when no same-named file was found
CopyInto(f, source_path, dest_folder, filename, dry, lck) ==
    IF dry THEN Returned(f, "would_copy")
    ELSE LET made == Mkdirs(f, dest_folder)
             copied == Copy2(made.fs, source_path, JoinPath(dest_folder, filename), lck)
         IN  IF made.raised # "" THEN Returned(made.fs, "error")
             ELSE IF copied.raised # "" THEN Returned(copied.fs, "error")
             ELSE Returned(copied.fs, "copied")

\* The folder copy_tv_show files an episode in
TvFolder(base_folder, info) ==
    JoinPath(JoinPath(base_folder, info.show_name), "Season " \o ToString(info.season_num))

\* copy_tv_show: the set of its possible outcomes
copy_tv_show(f, source_path, filename, base_folder, dry, replace, lck) ==
    LET info == extract_tv_show_info(filename)
        existing == check_file_exists_in_tree(f, base_folder, filename)
    IN  \* not show_name or season_num is None: the two are None together
        IF ~Truthy(info.show_name) THEN {Returned(f, "error")}
        ELSE IF existing # {}
            THEN {ExistingFound(f, source_path, e, dry, replace, lck) : e \in existing}
        ELSE {CopyInto(f, source_path, TvFolder(base_folder, info), filename, dry, lck)}

\* copy_movie: the set of its possible outcomes
copy_movie(f, source_path, filename, base_folder, dry, replace, lck) ==
    LET existing == check_file_exists_in_tree(f, base_folder, filename)
    IN  IF existing # {}
        THEN {ExistingFound(f, source_path, e, dry, replace, lck) : e \in existing}
        ELSE {CopyInto(f, source_path, JoinPath(base_folder, extract_movie_info(filename)),
                       filename, dry, lck)}

\* copy_music: the set of its possible outcomes
copy_music(f, source_path, filename, base_folder, dry, replace, lck) ==
    LET existing == check_file_exists_in_tree(f, base_folder, filename)
    IN  IF existing # {}
        THEN {ExistingFound(f, source_path, e, dry, replace, lck) : e \in existing}
        ELSE {CopyInto(f, source_path, base_folder, filename, dry, lck)}

----------------------------------------------------------------------------
(* downloads_import.py: main as a state machine, one step per listed file *)

DOWNLOADS_PATH == "/dl"
MOVIES_PATH == "/Movies"
TVSHOWS_PATH == "/TV"
MUSIC_PATH == "/Music"

\* The files the download list can name
Sources ==
    {"/dl/Show.Name.S02E05.1080p.WEB-DL.mkv", "/dl/Lost.1x02.mkv", "/dl/S01E01.mkv",
     "/dl/Movie.Name.2010.1080p.BluRay.x265.mkv", "/dl/Movie.Name.2010.720p.mkv",
     "/dl/BluRay/Movie.Name.2010.720p.mkv", "/dl/Heat.1080p.x264.mkv", "/dl/Best.Album.mkv",
     "/dl/Frost.mkv"}

\* The lines of the input file
InputLists ==
    {<<c>> : c \in Sources}
    \cup {<<"/dl/Movie.Name.2010.720p.mkv", "/dl/BluRay/Movie.Name.2010.720p.mkv">>,
          <<"/dl/notes.txt", " /dl/Best.Album.mkv ", "/dl/Lost.1x02.mkv">>}

\* files = [line.strip() for line in f if line.strip().endswith('.mkv')]
ReadList(lines) ==
    SelectSeq([i \in 1..Len(lines) |-> Strip(lines[i])], LAMBDA l : EndsWith(l, ".mkv"))

\* The files the libraries can hold before the run
LibraryFiles ==
    {"/Movies/Movie Name (2010)/Movie.Name.2010.720p.mkv",
     "/TV/Show Name/Season 2/Show.Name.S02E05.1080p.WEB-DL.mkv", "/Music/Best.Album.mkv"}

\* The tree before the run: the library files lib, each of existing_size, and the listed
\* files, each of new_size; new_size 0 stands for a list that names files that are gone
ImportFs(lib, existing_size, listed, new_size) ==
    LET here == IF new_size = 0 THEN {} ELSE listed
        dirs == ({DOWNLOADS_PATH, "/dl/BluRay", MOVIES_PATH, TVSHOWS_PATH}
                 \cup UNION {Ancestors(q) : q \in lib}) \ {Root}
    IN  [q \in dirs \cup lib \cup here |->
            IF q \in dirs THEN DirEntry
            ELSE IF q \in lib THEN FileEntry("old", existing_size)
            ELSE FileEntry("new", new_size)]

\* stats of main
ImportZeroStats ==
    [total |-> 0, movies |-> 0, tvshows |-> 0, music |-> 0, copied |-> 0, replaced |-> 0,
     would_copy |-> 0, would_replace |-> 0, skipped |-> 0, errors |-> 0]

InitImport ==
    /\ NoMain /\ NoPlan
    /\ prog = "import"
    /\ \E lines \in InputLists, lib \in SUBSET LibraryFiles,
          existing_size \in 1..MaxSize, new_size \in 0..MaxSize :
          /\ files = ReadList(lines)
          /\ fs = ImportFs(lib, existing_size, {files[i] : i \in 1..Len(files)}, new_size)
          /\ locked \in {{}, lib}
    /\ fs_run = fs
    /\ dry_run \in BOOLEAN
    /\ replace_better \in BOOLEAN
    /\ actions = <<>> /\ results = <<>> /\ folders_to_check = {} /\ errors = <<>>
    /\ stats = ImportZeroStats
    /\ tokens = {} /\ quality = None
    /\ idx = 0 /\ run = 1
    /\ pc = "loop"

\* The mutant of Category that looks for the music keywords first
Category_MusicFirst(filename) ==
    IF is_music(filename) THEN "music" ELSE IF is_tv_show(filename) THEN "tvshows" ELSE "movies"

\* The category main files a name under, with the stats key it counts and the copy
\* function it calls
Category(filename) ==
    IF is_tv_show(filename) THEN "tvshows" ELSE IF is_music(filename) THEN "music" ELSE "movies"

\* The call main makes for a file of a category
Dispatch(category, f, file_path, filename, dry, replace, lck) ==
    IF category = "tvshows"
    THEN copy_tv_show(f, file_path, filename, TVSHOWS_PATH, dry, replace, lck)
    ELSE IF category = "music"
    THEN copy_music(f, file_path, filename, MUSIC_PATH, dry, replace, lck)
    ELSE copy_movie(f, file_path, filename, MOVIES_PATH, dry, replace, lck)

\* The stats key main counts a result under
ResultKey(result) == IF result = "error" THEN "errors" ELSE result

\* One iteration of the loop of main
ImportStep ==
    /\ prog = "import" /\ pc = "loop" /\ idx < Len(files)
    /\ LET file_path == files[idx + 1]
           filename == Name(file_path)
       IN  \E category \in {Category(filename)} :
           \E r \in Dispatch(category, fs, file_path, filename, dry_run, replace_better, locked) :
              /\ fs' = r.fs
              /\ stats' = [stats EXCEPT !.total = @ + 1, ![category] = @ + 1,
                                        ![ResultKey(r.result)] = @ + 1]
    /\ idx' = idx + 1
    /\ UNCHANGED <<importVars, mainVars, planVars, prog, fs_run, locked, actions, dry_run,
                   results, folders_to_check, errors, pc, run>>

\* The loop is over: the summary is printed
ImportEnd ==
    /\ prog = "import" /\ pc = "loop" /\ idx = Len(files)
    /\ pc' = "done"
    /\ UNCHANGED <<importVars, mainVars, planVars, prog, fs, fs_run, locked, actions, dry_run,
                   idx, results, folders_to_check, stats, errors, run>>

NextImport == ImportStep \/ ImportEnd

SpecImport == InitImport /\ [][NextImport]_vars

----------------------------------------------------------------------------
(* Properties of the importer *)

\* The loop of main is about to process a file
Importing == prog = "import" /\ pc = "loop" /\ idx < Len(files)
file_path == files[idx + 1]
filename == Name(file_path)

\* The destination root of a category
RootOf(category) ==
    IF category = "tvshows" THEN TVSHOWS_PATH
    ELSE IF category = "music" THEN MUSIC_PATH ELSE MOVIES_PATH

\* The files named n below a root, wherever they are
SameNamed(f, root, n) == {q \in DOMAIN f : IsFile(f, q) /\ Name(q) = n /\ IsUnder(q, root)}

\* The paths at which two trees differ
Changed(f, g) ==
    {q \in DOMAIN f \cup DOMAIN g : q \notin DOMAIN f \/ q \notin DOMAIN g \/ f[q] # g[q]}

\* The listed names that carry an episode marker, and those that carry a music keyword
EpisodeNames == {"Show.Name.S02E05.1080p.WEB-DL.mkv", "Lost.1x02.mkv", "S01E01.mkv"}
KeywordNames == {"Lost.1x02.mkv", "Best.Album.mkv", "Frost.mkv"}

\* The category the decision order gives a listed name
Expected(n) ==
    IF n \in EpisodeNames THEN "tvshows" ELSE IF n \in KeywordNames THEN "music" ELSE "movies"

\* The copy function about to be called sees a same-named file under its root
Finds ==
    /\ Importing
    /\ SameNamed(fs, RootOf(Category(filename)), filename) # {}
    /\ Category(filename) = "tvshows" => Truthy(extract_tv_show_info(filename).show_name)

\* C14: when a copy function called with dry_run=False finds an existing same-named file
\* under its root, the existing file is removed and the incoming file is copied in its
\* place (counted as replaced) if and only if the replace flag is on and compare_quality
\* reports the new file better; otherwise the call returns "skipped" and neither file is
\* changed (stated for an incoming file that is on disk and for runs in which no other
\* process holds a file locked).
C14_Step ==
    (Finds /\ ~dry_run /\ locked = {} /\ IsFile(fs, file_path)) =>
        \E e \in SameNamed(fs, RootOf(Category(filename)), filename) :
            IF replace_better /\ compare_quality(fs, file_path, e)
            THEN /\ IsFile(fs', e) /\ fs'[e] = fs[file_path]
                 /\ Changed(fs, fs') \subseteq {e}
                 /\ stats'.replaced = stats.replaced + 1
            ELSE /\ fs' = fs
                 /\ stats'.skipped = stats.skipped + 1
C14_ReplaceIffBetter == [][C14_Step]_vars

\* copy_music replaced the library's album with the incoming file of the same name
C14_Witness ==
    /\ prog = "import" /\ pc = "done" /\ ~dry_run /\ replace_better
    /\ files = <<"/dl/Best.Album.mkv">>
    /\ IsFile(fs, "/Music/Best.Album.mkv") /\ fs["/Music/Best.Album.mkv"].data = "new"
    /\ IsFile(fs_run, "/Music/Best.Album.mkv") /\ fs_run["/Music/Best.Album.mkv"].data = "old"
    /\ stats.replaced = 1

\* The encodes of the scenario of C15
Encode720 == "/Movies/Movie Name (2010)/Movie.Name.2010.720p.mkv"
Encode1080 == "/dl/Movie.Name.2010.1080p.BluRay.x265.mkv"

\* C15: with the replace flag on, importing Movie.Name.2010.1080p.BluRay.x265.mkv while
\* the library holds Movie.Name.2010.720p.mkv of the same movie deletes the library's
\* encode and copies the new one.
C15_Step ==
    (Importing /\ ~dry_run /\ replace_better /\ locked = {} /\ file_path = Encode1080
     /\ IsFile(fs, Encode1080) /\ IsFile(fs, Encode720)) =>
        /\ ~Exists(fs', Encode720)
        /\ SameNamed(fs', MOVIES_PATH, filename) # {}
C15_BetterEncodeReplaces == [][C15_Step]_vars

\* The folder each listed name belongs in, by the show and season, or the title and year,
\* that the name spells out
ExpectedFolder ==
    [n \in {Name(c) : c \in Sources} \ {"S01E01.mkv"} |->
        IF n = "Show.Name.S02E05.1080p.WEB-DL.mkv" THEN "/TV/Show Name/Season 2"
        ELSE IF n = "Lost.1x02.mkv" THEN "/TV/Lost/Season 1"
        ELSE IF n = "Heat.1080p.x264.mkv" THEN "/Movies/Heat"
        ELSE IF n \in {"Best.Album.mkv", "Frost.mkv"} THEN "/Music"
        ELSE "/Movies/Movie Name (2010)"]

\* C16: when no file with the incoming filename exists anywhere under the destination
\* root, the incoming file is copied under its own name into <root>/<show>/Season <n>
\* (TV), <root>/<title> (<year>) or <root>/<cleaned title> (movie), or <root> (music),
\* the folder being created if absent.
C16_Step ==
    (Importing /\ ~dry_run /\ IsFile(fs, file_path)
     /\ SameNamed(fs, RootOf(Category(filename)), filename) = {}) =>
        \E q \in SameNamed(fs', RootOf(Category(filename)), filename) :
            /\ fs'[q] = fs[file_path]
            /\ filename \in DOMAIN ExpectedFolder => Parent(q) = ExpectedFolder[filename]
            /\ stats'.copied = stats.copied + 1
C16_CopiedToItsFolder == [][C16_Step]_vars

\* C19: a name with an episode marker is handled as a TV show even if it also carries a
\* music keyword, a name with a music keyword and no episode marker as music, every other
\* name as a movie: one category is counted, and only the tree of its root is written.
C19_Step ==
    Importing =>
        /\ \A c \in {"tvshows", "music", "movies"} :
              stats'[c] = stats[c] + (IF c = Expected(filename) THEN 1 ELSE 0)
        /\ \A q \in Changed(fs, fs') :
              q = RootOf(Expected(filename)) \/ IsUnder(q, RootOf(Expected(filename)))
C19_CategoryOrder == [][C19_Step]_vars

\* Lost.1x02.mkv, which carries the keyword "ost", was filed as an episode
C19_Witness ==
    /\ prog = "import" /\ pc = "done"
    /\ IsFile(fs, "/TV/Lost/Season 1/Lost.1x02.mkv")
    /\ stats.tvshows = 1 /\ stats.music = 0 /\ stats.copied = 1

----------------------------------------------------------------------------
(* compare_quality applied to two files *)

\* The incoming and the existing files compared, and their sizes
NewFiles ==
    {"/dl/Movie.Name.2010.720p.mkv", "/dl/BluRay/Movie.Name.2010.720p.mkv",
     "/dl/Movie.Name.2010.1080p.mkv", "/dl/Heat.mkv"}
ExistingFiles ==
    {"/Movies/Movie Name (2010)/Movie.Name.2010.720p.mkv",
     "/Movies/1080p/Movie.Name.2010.720p.mkv",
     "/Movies/Movie Name (2010)/Movie.Name.2010.1080p.mkv", "/Movies/Heat/Heat.mkv"}
CompareSizes == {10, 11, 12}

\* The tree that holds the two files; new_size 0 stands for an incoming file that is gone
CompareFs(new_file, new_size, existing_file, existing_size) ==
    LET here == {existing_file} \cup (IF new_size = 0 THEN {} ELSE {new_file})
        dirs == UNION {Ancestors(q) : q \in here} \ {Root}
    IN  [q \in dirs \cup here |->
            IF q \in dirs THEN DirEntry
            ELSE IF q = existing_file THEN FileEntry("old", existing_size)
            ELSE FileEntry("new", new_size)]

InitCompare ==
    /\ NoMain /\ NoExec /\ NoPlan
    /\ prog = "compare"
    /\ \E new_file \in NewFiles, existing_file \in ExistingFiles,
          new_size \in CompareSizes \cup {0}, existing_size \in CompareSizes :
          /\ files = <<new_file, existing_file>>
          /\ fs = CompareFs(new_file, new_size, existing_file, existing_size)
    /\ fs_run = fs
    /\ dry_run = FALSE
    /\ idx = 0
    /\ replace_better = TRUE
    /\ tokens = {}
    /\ quality = None
    /\ pc = "main"

\* compare_quality(new_file, existing_file)
CompareStep ==
    /\ prog = "compare" /\ pc = "main"
    /\ quality' = Comparison(fs, files[1], files[2])
    /\ pc' = "done"
    /\ UNCHANGED <<mainVars, planVars, prog, fs, fs_run, locked, actions, dry_run, idx,
                   results, folders_to_check, stats, errors, run, files, replace_better,
                   tokens>>

NextCompare == CompareStep

SpecCompare == InitCompare /\ [][NextCompare]_vars

\* One file is larger than the other by more than 10%
LargerBy10(f, a, b) == IsFile(f, a) /\ IsFile(f, b) /\ 10 * f[a].size > 11 * f[b].size

\* C21: compare_quality adds 50 to the score of a file if and only if the scores of the
\* two names it is given are equal and that file is larger than the other by more than
\* 10%, whichever of the two files it is; no bonus is given when the scores differ.
C21_BonusToTheLarger ==
    (prog = "compare" /\ pc = "done" /\ IsFile(fs, files[1])) =>
        LET new_base == extract_quality_info(files[1]).score
            existing_base == extract_quality_info(files[2]).score
        IN  /\ quality.new_score - new_base =
                  (IF new_base = existing_base /\ LargerBy10(fs, files[1], files[2])
                   THEN 50 ELSE 0)
            /\ quality.existing_score - existing_base =
                  (IF new_base = existing_base /\ LargerBy10(fs, files[2], files[1])
                   THEN 50 ELSE 0)

----------------------------------------------------------------------------
(* Properties of rename_for_radarr *)

\* rename_for_radarr is about to examine an item
Renaming == prog = "plan" /\ pc = "rename" /\ idx < Len(items)
item == items[idx + 1]

\* The actions the step added to the list
Added == SubSeq(all_actions', Len(all_actions) + 1, Len(all_actions'))

\* C22: for a folder that is not in canonical format, has no year in its name and whose
\* lookup fails or finds nothing, rename_for_radarr adds one skip action with the reason
\* "no year available" (whatever the case of its first letter), renames nothing and does
\* not raise.
C22_Step ==
    (Renaming /\ LooksUp(fs, item) /\ tmdb' = None) =>
        /\ Len(Added) = 1
        /\ Added[1].action = "skip" /\ Added[1].path = item
        /\ Lower(Added[1].reason) = "no year available"
        /\ fs' = fs
        /\ pc' = "rename"
C22_NoYearIsSkipped == [][C22_Step]_vars

\* The folder alien had no year and the lookup found nothing: it was skipped
C22_Witness ==
    /\ prog = "plan" /\ pc = "rename" /\ tmdb = None /\ idx > 0 /\ items[idx] = "/alien"
    /\ all_actions # <<>>
    /\ all_actions[Len(all_actions)] =
          [action |-> "skip", path |-> "/alien", reason |-> "No year available"]

\* The folder examined is Alien or alien, the lookup answers 1979 and Alien (1979) exists
Collides ==
    /\ Renaming /\ item \in {"/Alien", "/alien"} /\ IsDir(fs, item)
    /\ tmdb' = "1979" /\ Exists(fs, "/Alien (1979)")

\* C23: rename_for_radarr adds no rename action, and performs no rename, whose new_path
\* exists when the folder is examined; it adds a skip action whose reason names the
\* existing target and leaves the tree as it is.
C23_Step ==
    Renaming =>
        /\ \A i \in 1..Len(Added) :
              Added[i].action = "rename" => ~Exists(fs, Added[i].new_path)
        /\ Collides =>
              /\ Added = <<[action |-> "skip", path |-> item,
                            reason |-> "Target Alien (1979) already exists"]>>
              /\ fs' = fs
C23_CollisionIsSkipped == [][C23_Step]_vars

\* Alien was examined while Alien (1979) existed and the lookup answered 1979: skipped
C23_Witness ==
    /\ prog = "plan" /\ pc = "rename" /\ idx > 0 /\ items[idx] = "/Alien" /\ tmdb = "1979"
    /\ IsDir(fs, "/Alien") /\ IsDir(fs, "/Alien (1979)") /\ fs = fs_run
    /\ all_actions[Len(all_actions)] =
          [action |-> "skip", path |-> "/Alien", reason |-> "Target Alien (1979) already exists"]

\* C29: in the action list a dry run of main saves (handle_duplicates, then
\* rename_for_radarr), no folder that a delete action names is the old_path of a rename
\* action.
C29_NoDeleteAndRenameOfOneFolder ==
    (prog = "plan" /\ pc = "done" /\ dry_run) =>
        \A i, j \in 1..Len(all_actions) :
            (all_actions[i].action = "delete" /\ all_actions[j].action = "rename") =>
                all_actions[j].old_path # all_actions[i].path

----------------------------------------------------------------------------
(* Further properties of the importer *)

\* C24: for every filename for which is_tv_show is true, extract_tv_show_info gives a
\* non-empty show name and a season, so copy_tv_show, called for a file that is on disk,
\* does not end in "error".
C24_Step ==
    (Importing /\ is_tv_show(filename)) =>
        /\ Truthy(extract_tv_show_info(filename).show_name)
        /\ (IsFile(fs, file_path) /\ locked = {}) => stats'.errors = stats.errors
C24_DetectionAndExtractionAgree == [][C24_Step]_vars

\* C27: when the replace path of copy_tv_show, copy_movie or copy_music returns "error",
\* every same-named file that was under the destination root is still there with the
\* content it had.
C27_Step ==
    (Finds /\ ~dry_run /\ replace_better /\ stats'.errors = stats.errors + 1) =>
        \A e \in SameNamed(fs, RootOf(Category(filename)), filename) :
            IsFile(fs', e) /\ fs'[e] = fs[e]
C27_FailedReplaceKeepsTheCopy == [][C27_Step]_vars

----------------------------------------------------------------------------
(* Further properties of the executors *)

\* The types of action the executors know
KnownTypes == {"move", "delete", "rename", "keep", "skip"}

\* C25: an action of no known type is not executed and is recorded: execute_actions_file
\* appends a result with status unknown, ActionExecutor.execute_all counts it or lists it,
\* and neither changes the filesystem.
C25_Step ==
    (prog \in {"file", "exec"} /\ Looping /\ Get(Current, "action") \notin KnownTypes) =>
        /\ fs' = fs
        /\ idx' = idx + 1
        /\ \/ /\ prog = "file"
              /\ results' = Append(results, [action |-> Current.action, status |-> "unknown"])
           \/ /\ prog = "exec"
              /\ stats' # stats \/ errors' # errors
C25_UnknownIsRecorded == [][C25_Step]_vars

\* C28: ActionExecutor.execute_move does not overwrite a file that is already at
\* destination/<basename of source>: the source and that file both stay, with their
\* content.
C28_Step ==
    LET source == Get(Current, "source")
        destination == Get(Current, "destination")
        full_dest == Join(destination, Name(source))
    IN  (/\ prog = "exec" /\ Looping /\ ~dry_run
         /\ Get(Current, "action") = "move"
         /\ Truthy(source) /\ Truthy(destination)
         /\ IsFile(fs, source) /\ IsFile(fs, full_dest) /\ source # full_dest)
        => /\ IsFile(fs', source) /\ fs'[source] = fs[source]
           /\ IsFile(fs', full_dest) /\ fs'[full_dest] = fs[full_dest]
C28_MoveNeverOverwrites == [][C28_Step]_vars

----------------------------------------------------------------------------
(* handle_duplicates applied to a library of two folders *)

\* The folder names the two-folder libraries are drawn from
GroupNames ==
    {"Heat", "heat", "HEAT", "Heat!", "Heat.", "Heat (1995)", "heat  (1995)",
     "Heat  Two", "heat two", "Spider-Man", "Spider-man"}

InitGroup ==
    /\ NoImport
    /\ NoMain /\ NoExec /\ NoPlan
    /\ prog = "plan"
    /\ \E a, b \in GroupNames :
          /\ a # b
          /\ fs = LibFs([n \in {a, b} |-> 1])
    /\ fs_run = fs
    /\ dry_run \in BOOLEAN
    /\ idx = 0
    /\ pc = "duplicates"

SpecGroup == InitGroup /\ [][NextPlan]_vars

\* s without its characters other than letters, digits and spaces
RECURSIVE RemovePunctuation(_)
RemovePunctuation(s) ==
    IF s = "" THEN ""
    ELSE (IF IsSpace(Head(s)) \/ IsDigit(Head(s)) \/ LowerChar(Head(s)) # UpperChar(Head(s))
          THEN Head(s) ELSE "") \o RemovePunctuation(Tail(s))

\* Two names differ at most in letter case, punctuation, runs of whitespace and a year
\* in parentheses
SameButForm(a, b) ==
    LET Fold(n) == JoinWords(Split(RemovePunctuation(Lower(StripYears(n)))), " ")
    IN  Fold(a) = Fold(b)

\* C26: two folders whose names differ only in letter case, punctuation, runs of
\* whitespace and a year in parentheses fall into one duplicate group of
\* handle_duplicates, which therefore plans to delete one of them.
C26_GroupedWhateverTheForm ==
    (prog = "plan" /\ pc = "rename" /\ idx = 0) =>
        \A a, b \in Iterdir(fs_run, Root) :
            (a # b /\ SameButForm(Name(a), Name(b))) =>
                \E i \in 1..Len(all_actions) :
                    all_actions[i].action = "delete" /\ all_actions[i].path \in {a, b}

----------------------------------------------------------------------------
(* Plan, then execute: a dry run of main saves the action log, and the log is
   executed live by execute_actions_file *)

InitRound == InitPlan /\ dry_run

\* python movie_cleanup.py <log_file> --live: execute_actions_file loads the saved plan
ExecuteSavedLog ==
    /\ prog = "plan" /\ pc = "done" /\ dry_run
    /\ prog' = "file"
    /\ actions' = all_actions
    /\ dry_run' = FALSE
    /\ idx' = 0
    /\ pc' = "loop"
    /\ UNCHANGED <<importVars, mainVars, planVars, fs, fs_run, locked, results,
                   folders_to_check, stats, errors, run>>

NextRound == NextPlan \/ ExecuteSavedLog \/ FileStep \/ FileEnd

SpecRound == InitRound /\ [][NextRound]_vars

\* rename_for_radarr(dry_run=False) over the items, TMDb answering as in `table`
RECURSIVE RenameAll(_, _, _)
RenameAll(f, its, table) ==
    IF its = <<>> THEN f
    ELSE LET looked_up == IF Head(its) \in DOMAIN table THEN table[Head(its)] ELSE None
         IN  RenameAll(RenameItem(f, Head(its), looked_up, FALSE).fs, Tail(its), table)

\* The filesystem main leaves when it plans live: handle_duplicates(False), then
\* rename_for_radarr(False)
PlannedLive(f, order, table) ==
    LET deduplicated == handle_duplicates(f, order, FALSE).fs
    IN  RenameAll(deduplicated, Sorted(Iterdir(deduplicated, Root)), table)

\* C30: executing the saved log of a dry run with execute_actions_file ends in the
\* filesystem that planning live leaves on the same library, with the same directory
\* order and the same TMDb answers.
C30_PlanThenExecuteIsPlanningLive ==
    (prog = "file" /\ pc = "done") => fs = PlannedLive(fs_run, listing, lookups)

=============================================================================
